---- MODULE Spec2Model ----
(***************************************************************************)
(* Weighted round robin load balancing policy                              *)
(* (src/core/load_balancing/weighted_round_robin/weighted_round_robin.cc). *)
(*                                                                         *)
(* The module models the policy object (WeightedRoundRobin), its endpoint  *)
(* lists (WrrEndpointList / WrrEndpoint), the per-endpoint weight records  *)
(* (EndpointWeight), the pickers (Picker) and the data-plane picks.        *)
(* Control-plane handlers run in the work serializer and are one action    *)
(* each.  Several specifications share the variables; each enables the     *)
(* handlers and draws the inputs that its claims are about.                *)
(***************************************************************************)
EXTENDS Integers, Sequences, FiniteSets, TLC

(***************************************************************************)
(* Bounds of the model.                                                    *)
(***************************************************************************)
\* Number of distinct endpoint address sets (EndpointAddressSet keys).
NumKeys == 3
\* Longest address list a resolver update carries (before deduplication).
MaxAddrs == 2
\* Last instant of the clock Timestamp::Now().
MaxTime == 5
\* Number of data-plane threads that call Picker::Pick.
NumThreads == 1
\* Scaled-down width in bits of the atomic counters (size_t
\* last_picked_index_, uint32_t scheduler_state_).
CounterBits == 2
\* The counters wrap modulo a power of two.
CounterModulus == 2 ^ CounterBits

Keys == 1..NumKeys
Times == 0..MaxTime
Threads == 1..NumThreads
PickerIds == 1..(NumThreads + 1)

(***************************************************************************)
(* Timestamp and Duration (src/core/util/time.h is not part of the         *)
(* sources at hand; the arithmetic on Timestamp::InfFuture() follows the   *)
(* specification: +infinity compares greater than every finite time and    *)
(* "now - +infinity" is smaller than every finite duration).               *)
(***************************************************************************)
InfFuture == MaxTime + MaxTime + 2
NegativeInfinity == 0 - (InfFuture + 1)

TimestampMinus(lhs, rhs) ==
    IF rhs = InfFuture /\ lhs # InfFuture THEN NegativeInfinity ELSE lhs - rhs

(***************************************************************************)
(* Connectivity states and statuses.                                       *)
(***************************************************************************)
\* std::optional<grpc_connectivity_state>: "NONE" is std::nullopt.
\* SHUTDOWN is never reported by a child (CHECKed in
\* UpdateStateCountersLocked).
ConnectivityStates == {"IDLE", "CONNECTING", "READY", "TRANSIENT_FAILURE"}

OkStatus == "OK"
\* Non-OK statuses a child or the resolver may report.
ErrorStatuses == {"E1", "E2"}
EmptyAddressListStatus == <<"UNAVAILABLE", "empty address list">>

\* absl::UnavailableError(StrCat("connections to all backends failing; last
\* error: ", status.ToString()))
AllBackendsFailing(status) ==
    <<"UNAVAILABLE", "connections to all backends failing; last error: ", status>>

VARIABLES
    now,                           \* Timestamp::Now()
    config_,                       \* WeightedRoundRobin::config_
    endpoint_list_,                \* WeightedRoundRobin::endpoint_list_
    latest_pending_endpoint_list_, \* WeightedRoundRobin::latest_pending_endpoint_list_
    endpoint_weight_map_,          \* key -> the live EndpointWeight, or NoWeight
    shutdown_,                     \* WeightedRoundRobin::shutdown_
    scheduler_state_,              \* WeightedRoundRobin::scheduler_state_
    published,                     \* last ChannelControlHelper::UpdateState() call
    pickers,                       \* live Picker objects by identity
    threads,                       \* data-plane threads inside Picker::Pick
    last_call,                     \* the handler that ran last, with what it did
    hist,                          \* history of reports, for the blackout laws
    picked,                        \* history of the indexes Pick returned
    weight_objects,                \* EndpointWeight objects by address
    map_entries,                   \* endpoint_weight_map_ as pointers to them
    mutexes,                       \* the owner of each mutex
    running,                       \* threads inside a function that locks
    shared,                        \* what the mutexes of a picker guard
    calls,                         \* history of the calls on an EndpointWeight
    channel_released               \* the channel let go of the picker it was given

\* The variables of the specifications of handlers that run to completion.
policy_vars == <<now, config_, endpoint_list_, latest_pending_endpoint_list_,
                 endpoint_weight_map_, shutdown_, scheduler_state_, published,
                 pickers, threads, hist, picked>>

\* The variables of the specifications of reference counts and mutexes.
lifetime_vars == <<weight_objects, map_entries, mutexes, running, shared,
                   calls, channel_released>>

vars == <<now, config_, endpoint_list_, latest_pending_endpoint_list_,
          endpoint_weight_map_, shutdown_, scheduler_state_, published,
          pickers, threads, last_call, hist, picked,
          weight_objects, map_entries, mutexes, running, shared, calls,
          channel_released>>

(***************************************************************************)
(* EndpointWeight                                                          *)
(***************************************************************************)
NoWeight == [live |-> FALSE]

\* A newly constructed EndpointWeight (member initialisers).
NewEndpointWeight ==
    [live |-> TRUE, weight_ |-> 0,
     non_empty_since_ |-> InfFuture, last_update_time_ |-> InfFuture]

\* Fixed-point scale in which the float weight_ is held (1 unit = 1/WeightScale).
WeightScale == 4

\* The weight computed without the qps in the numerator.
ComputeWeight_WithoutQps(qps, eps, utilization, error_utilization_penalty) ==
    IF qps > 0 /\ utilization > 0
    THEN LET penalty_times_qps ==
                 IF eps > 0 /\ error_utilization_penalty > 0
                 THEN eps * error_utilization_penalty
                 ELSE 0
         IN  (qps * WeightScale) \div (utilization * qps + penalty_times_qps)
    ELSE 0

\* MaybeUpdateWeight, lines 440-447: weight = qps / (utilization + penalty).
ComputeWeight(qps, eps, utilization, error_utilization_penalty) ==
    IF qps > 0 /\ utilization > 0
    THEN LET penalty_times_qps ==
                 IF eps > 0 /\ error_utilization_penalty > 0
                 THEN eps * error_utilization_penalty
                 ELSE 0
         IN  (qps * qps * WeightScale) \div (utilization * qps + penalty_times_qps)
    ELSE 0

\* MaybeUpdateWeight that records the weight without its time.
MaybeUpdateWeight_NoUpdateTime(ew, qps, eps, utilization, error_utilization_penalty, t) ==
    LET weight == ComputeWeight(qps, eps, utilization, error_utilization_penalty)
    IN  IF weight = 0
        THEN ew
        ELSE [ew EXCEPT
                !.non_empty_since_ = IF @ = InfFuture THEN t ELSE @,
                !.weight_ = weight]

\* MaybeUpdateWeight that stores a zero weight like any other.
MaybeUpdateWeight_StoresZero(ew, qps, eps, utilization, error_utilization_penalty, t) ==
    LET weight == ComputeWeight(qps, eps, utilization, error_utilization_penalty)
    IN  [ew EXCEPT
            !.non_empty_since_ = IF @ = InfFuture THEN t ELSE @,
            !.weight_ = weight,
            !.last_update_time_ = t]

\* EndpointWeight::MaybeUpdateWeight with Timestamp::Now() = t.
MaybeUpdateWeight(ew, qps, eps, utilization, error_utilization_penalty, t) ==
    LET weight == ComputeWeight(qps, eps, utilization, error_utilization_penalty)
    IN  IF weight = 0
        THEN ew
        ELSE [ew EXCEPT
                !.non_empty_since_ = IF @ = InfFuture THEN t ELSE @,
                !.weight_ = weight,
                !.last_update_time_ = t]

\* GetWeight that keeps non_empty_since when the weight has expired.
GetWeight_NoResetOnExpiry(ew, t, weight_expiration_period, blackout_period) ==
    IF TimestampMinus(t, ew.last_update_time_) >= weight_expiration_period
    THEN [ew |-> ew, result |-> 0, num_not_yet_usable |-> 0, num_stale |-> 1]
    ELSE IF blackout_period > 0
            /\ TimestampMinus(t, ew.non_empty_since_) < blackout_period
    THEN [ew |-> ew, result |-> 0, num_not_yet_usable |-> 1, num_stale |-> 0]
    ELSE [ew |-> ew, result |-> ew.weight_,
          num_not_yet_usable |-> 0, num_stale |-> 0]

\* GetWeight that tests the blackout before the expiration.
GetWeight_BlackoutFirst(ew, t, weight_expiration_period, blackout_period) ==
    IF blackout_period > 0
       /\ TimestampMinus(t, ew.non_empty_since_) < blackout_period
    THEN [ew |-> ew, result |-> 0, num_not_yet_usable |-> 1, num_stale |-> 0]
    ELSE IF TimestampMinus(t, ew.last_update_time_) >= weight_expiration_period
    THEN [ew |-> [ew EXCEPT !.non_empty_since_ = InfFuture],
          result |-> 0, num_not_yet_usable |-> 0, num_stale |-> 1]
    ELSE [ew |-> ew, result |-> ew.weight_,
          num_not_yet_usable |-> 0, num_stale |-> 0]

\* GetWeight that finds a weight expired once only: while non_empty_since
\* is +infinity it goes on to the blackout test.
GetWeight_StaleOnce(ew, t, weight_expiration_period, blackout_period) ==
    IF /\ TimestampMinus(t, ew.last_update_time_) >= weight_expiration_period
       /\ ew.non_empty_since_ # InfFuture
    THEN [ew |-> [ew EXCEPT !.non_empty_since_ = InfFuture],
          result |-> 0, num_not_yet_usable |-> 0, num_stale |-> 1]
    ELSE IF blackout_period > 0
            /\ TimestampMinus(t, ew.non_empty_since_) < blackout_period
    THEN [ew |-> ew, result |-> 0, num_not_yet_usable |-> 1, num_stale |-> 0]
    ELSE [ew |-> ew, result |-> ew.weight_,
          num_not_yet_usable |-> 0, num_stale |-> 0]

\* EndpointWeight::GetWeight: the record after the call, the value returned
\* and the increments of *num_not_yet_usable and *num_stale.
GetWeight(ew, t, weight_expiration_period, blackout_period) ==
    IF TimestampMinus(t, ew.last_update_time_) >= weight_expiration_period
    THEN [ew |-> [ew EXCEPT !.non_empty_since_ = InfFuture],
          result |-> 0, num_not_yet_usable |-> 0, num_stale |-> 1]
    ELSE IF blackout_period > 0
            /\ TimestampMinus(t, ew.non_empty_since_) < blackout_period
    THEN [ew |-> ew, result |-> 0, num_not_yet_usable |-> 1, num_stale |-> 0]
    ELSE [ew |-> ew, result |-> ew.weight_,
          num_not_yet_usable |-> 0, num_stale |-> 0]

\* ResetNonEmptySince that leaves the record alone.
ResetNonEmptySince_Noop(ew) == ew

\* EndpointWeight::ResetNonEmptySince
ResetNonEmptySince(ew) == [ew EXCEPT !.non_empty_since_ = InfFuture]

\* BackendMetricData as read by the two report paths; NoData is the null
\* pointer GetBackendMetricData() may return.
NoData == [present |-> FALSE]

\* application_utilization when positive, else cpu_utilization
\* (Finish lines 526-529, OnBackendMetricReport lines 819-822).
Utilization(data) ==
    IF data.application_utilization <= 0
    THEN data.cpu_utilization
    ELSE data.application_utilization

\* Picker::SubchannelCallTracker::Finish: the weight record after the call.
SubchannelCallTrackerFinish(ew, data, error_utilization_penalty, t) ==
    IF data = NoData
    THEN MaybeUpdateWeight(ew, 0, 0, 0, error_utilization_penalty, t)
    ELSE MaybeUpdateWeight(ew, data.qps, data.eps, Utilization(data),
                           error_utilization_penalty, t)

\* WrrEndpoint::OobWatcher::OnBackendMetricReport
OnBackendMetricReport(ew, data, error_utilization_penalty, t) ==
    MaybeUpdateWeight(ew, data.qps, data.eps, Utilization(data),
                      error_utilization_penalty, t)

(***************************************************************************)
(* StaticStrideScheduler (static_stride_scheduler.cc is not part of the    *)
(* sources at hand; modelled from section 4.A of the specification).       *)
(***************************************************************************)
NoScheduler == [present |-> FALSE]

\* Fixed-point range of the generation credits ("e.g. 16-bit").
kMaxWeight == 65535
\* A weight is capped at kMaxRatio times the mean ("typically 10").
kMaxRatio == 10

RECURSIVE SeqSum(_)
SeqSum(s) == IF s = <<>> THEN 0 ELSE Head(s) + SeqSum(Tail(s))

SeqMax(s) == CHOOSE m \in {s[i] : i \in 1..Len(s)} : \A i \in 1..Len(s) : s[i] <= m

NumPositive(s) == Cardinality({i \in 1..Len(s) : s[i] > 0})

\* x / y rounded to the nearest integer, for x >= 0, y > 0.
RoundDiv(x, y) == (2 * x + y) \div (2 * y)

\* StaticStrideScheduler::Make: no scheduler when fewer than two weights are
\* positive; otherwise zeros take the mean of the positive weights, every
\* weight is capped at kMaxRatio * mean and scaled so that the greatest is
\* kMaxWeight.
StaticStrideSchedulerMake(float_weights) ==
    IF NumPositive(float_weights) < 2
    THEN NoScheduler
    ELSE LET n_pos == NumPositive(float_weights)
             sum == SeqSum(float_weights)
             \* cap and mean are kept multiplied by n_pos to stay integral
             cap_n == kMaxRatio * sum
             max_n == IF SeqMax(float_weights) * n_pos > cap_n
                      THEN cap_n
                      ELSE SeqMax(float_weights) * n_pos
             Scaled(w) ==
                 LET w_n == IF w = 0 THEN sum
                            ELSE IF w * n_pos > cap_n THEN cap_n ELSE w * n_pos
                     s == RoundDiv(w_n * kMaxWeight, max_n)
                 IN  IF s < 1 THEN 1 ELSE s
         IN  [present |-> TRUE,
              weights |-> [i \in 1..Len(float_weights) |-> Scaled(float_weights[i])]]

\* The threshold offset between neighbouring positions of a stride.
kOffset == kMaxWeight \div 2

\* One iteration of StaticStrideScheduler::Pick with sequence number seq:
\* the candidate seq mod n is accepted if and only if its credit for this
\* generation passes the threshold of its position.
StaticStrideSchedulerAccepts(scheduler, seq) ==
    LET n == Len(scheduler.weights)
        backend_index == seq % n
        generation == seq \div n
        weight == scheduler.weights[backend_index + 1]
    IN  (weight * generation + backend_index * kOffset) % kMaxWeight
            >= kMaxWeight - weight

StaticStrideSchedulerCandidate(scheduler, seq) == seq % Len(scheduler.weights)

(***************************************************************************)
(* WrrEndpointList and WrrEndpoint.  The base classes EndpointList and     *)
(* EndpointList::Endpoint (endpoint_list.cc) are not part of the sources   *)
(* at hand; what the policy uses of them is modelled from section 3 of the *)
(* specification: an endpoint holds its last notified connectivity state   *)
(* (none before the first notification) and the list is its ordered        *)
(* sequence of endpoints.                                                  *)
(***************************************************************************)
NoList == [live |-> FALSE]

NewEndpoint(key) == [key |-> key, connectivity_state_ |-> "NONE"]

\* WrrEndpointList constructor over the (sorted, deduplicated) keys.
NewEndpointList(keys) ==
    [live |-> TRUE,
     endpoints |-> [i \in 1..Len(keys) |-> NewEndpoint(keys[i])],
     num_ready_ |-> 0, num_connecting_ |-> 0, num_transient_failure_ |-> 0,
     last_failure_ |-> OkStatus]

Size(l) == Len(l.endpoints)

\* EndpointList::AllEndpointsSeenInitialState
AllEndpointsSeenInitialState(l) ==
    \A i \in 1..Size(l) : l.endpoints[i].connectivity_state_ # "NONE"

ListKeys(l) == IF l.live THEN {l.endpoints[i].key : i \in 1..Size(l)} ELSE {}

\* UpdateStateCountersLocked that forgets the bucket of the old state.
UpdateStateCountersLocked_NoDecrement(l, old_state, new_state) ==
    IF new_state = "READY"
    THEN [l EXCEPT !.num_ready_ = @ + 1]
    ELSE IF new_state \in {"CONNECTING", "IDLE"}
    THEN [l EXCEPT !.num_connecting_ = @ + 1]
    ELSE IF new_state = "TRANSIENT_FAILURE"
    THEN [l EXCEPT !.num_transient_failure_ = @ + 1]
    ELSE l

\* UpdateStateCountersLocked that counts an IDLE endpoint as READY.
UpdateStateCountersLocked_IdleAsReady(l, old_state, new_state) ==
    LET dec == IF old_state \in {"READY", "IDLE"}
               THEN [l EXCEPT !.num_ready_ = @ - 1]
               ELSE IF old_state = "CONNECTING"
               THEN [l EXCEPT !.num_connecting_ = @ - 1]
               ELSE IF old_state = "TRANSIENT_FAILURE"
               THEN [l EXCEPT !.num_transient_failure_ = @ - 1]
               ELSE l
    IN  IF new_state \in {"READY", "IDLE"}
        THEN [dec EXCEPT !.num_ready_ = @ + 1]
        ELSE IF new_state = "CONNECTING"
        THEN [dec EXCEPT !.num_connecting_ = @ + 1]
        ELSE IF new_state = "TRANSIENT_FAILURE"
        THEN [dec EXCEPT !.num_transient_failure_ = @ + 1]
        ELSE dec

\* WrrEndpointList::UpdateStateCountersLocked
UpdateStateCountersLocked(l, old_state, new_state) ==
    LET dec == IF old_state = "READY"
               THEN [l EXCEPT !.num_ready_ = @ - 1]
               ELSE IF old_state \in {"CONNECTING", "IDLE"}
               THEN [l EXCEPT !.num_connecting_ = @ - 1]
               ELSE IF old_state = "TRANSIENT_FAILURE"
               THEN [l EXCEPT !.num_transient_failure_ = @ - 1]
               ELSE l
    IN  IF new_state = "READY"
        THEN [dec EXCEPT !.num_ready_ = @ + 1]
        ELSE IF new_state \in {"CONNECTING", "IDLE"}
        THEN [dec EXCEPT !.num_connecting_ = @ + 1]
        ELSE IF new_state = "TRANSIENT_FAILURE"
        THEN [dec EXCEPT !.num_transient_failure_ = @ + 1]
        ELSE dec

\* A promotion test that does not ask the pending list for a READY endpoint.
ShouldSwapPending_WhenAllSeen(current, l) ==
    \/ current.num_ready_ = 0
    \/ AllEndpointsSeenInitialState(l)
    \/ l.num_transient_failure_ = Size(l)

\* The swap test that lets every notification promote the pending list.
ShouldSwapPending_Always(current, l) == TRUE

\* The swap test without the wait for the initial notifications.
ShouldSwapPending_AnyReady(current, l) ==
    \/ current.num_ready_ = 0
    \/ l.num_ready_ > 0
    \/ l.num_transient_failure_ = Size(l)

\* The test of lines 936-939 for the list l = latest_pending_endpoint_list_
\* against the current list.
ShouldSwapPending(current, l) ==
    \/ current.num_ready_ = 0
    \/ (l.num_ready_ > 0 /\ AllEndpointsSeenInitialState(l))
    \/ l.num_transient_failure_ = Size(l)

\* The aggregation with the CONNECTING rule ahead of the READY rule.
AggregatedState_ConnectingFirst(l) ==
    IF l.num_connecting_ > 0 THEN "CONNECTING"
    ELSE IF l.num_ready_ > 0 THEN "READY"
    ELSE IF l.num_transient_failure_ = Size(l) THEN "TRANSIENT_FAILURE"
    ELSE "NONE"

\* The aggregation that reports TRANSIENT_FAILURE as soon as one endpoint
\* fails.
AggregatedState_AnyFailure(l) ==
    IF l.num_ready_ > 0 THEN "READY"
    ELSE IF l.num_connecting_ > 0 THEN "CONNECTING"
    ELSE IF l.num_transient_failure_ > 0 THEN "TRANSIENT_FAILURE"
    ELSE "NONE"

\* The rule of lines 954-977 that matches for the current list l:
\* the connectivity state it reports, "NONE" when no rule matches.
AggregatedState(l) ==
    IF l.num_ready_ > 0 THEN "READY"
    ELSE IF l.num_connecting_ > 0 THEN "CONNECTING"
    ELSE IF l.num_transient_failure_ = Size(l) THEN "TRANSIENT_FAILURE"
    ELSE "NONE"

\* last_failure_ forgotten by an aggregation whose status is OK.
LastFailureAfter_ForgetsOnOk(l, status_for_tf) ==
    IF status_for_tf # OkStatus THEN AllBackendsFailing(status_for_tf)
    ELSE OkStatus

\* last_failure_ after the TRANSIENT_FAILURE rule ran with status_for_tf
\* (lines 971-975).
LastFailureAfter(l, status_for_tf) ==
    IF status_for_tf # OkStatus THEN AllBackendsFailing(status_for_tf)
    ELSE l.last_failure_

(***************************************************************************)
(* Picker                                                                  *)
(***************************************************************************)
NoPicker == [live |-> FALSE]

\* A snapshot of every endpoint that has a connectivity state.
ReadyKeys_AllSeen(endpoints) ==
    LET seen == SelectSeq(endpoints, LAMBDA e : e.connectivity_state_ # "NONE")
    IN  [j \in 1..Len(seen) |-> seen[j].key]

RECURSIVE ReadyKeys(_)
\* The loop of the Picker constructor (lines 543-548) over the endpoints.
ReadyKeys(endpoints) ==
    IF endpoints = <<>> THEN <<>>
    ELSE IF Head(endpoints).connectivity_state_ = "READY"
         THEN <<Head(endpoints).key>> \o ReadyKeys(Tail(endpoints))
         ELSE ReadyKeys(Tail(endpoints))

RECURSIVE CollectWeights(_, _, _, _)
\* The loop of lines 618-626 over endpoints_: the weight map after the
\* GetWeight calls, the weights and the two exception totals.
CollectWeights(keys, weight_map, t, cfg) ==
    IF keys = <<>>
    THEN [weight_map |-> weight_map, weights |-> <<>>,
          num_not_yet_usable |-> 0, num_stale |-> 0, stale_keys |-> {}]
    ELSE LET g == GetWeight(weight_map[Head(keys)], t,
                            cfg.weight_expiration_period, cfg.blackout_period)
             rest == CollectWeights(Tail(keys),
                                    [weight_map EXCEPT ![Head(keys)] = g.ew],
                                    t, cfg)
         IN  [weight_map |-> rest.weight_map,
              weights |-> <<g.result>> \o rest.weights,
              num_not_yet_usable |-> g.num_not_yet_usable + rest.num_not_yet_usable,
              num_stale |-> g.num_stale + rest.num_stale,
              stale_keys |-> IF g.num_stale = 1
                             THEN {Head(keys)} \cup rest.stale_keys
                             ELSE rest.stale_keys]

\* The rebuild that schedules no timer.
BuildSchedulerAndStartTimerLocked_NoTimer(p, weight_map, t) ==
    LET c == CollectWeights(p.endpoints_, weight_map, t, p.config_)
        scheduler == StaticStrideSchedulerMake(c.weights)
    IN  [picker |-> [p EXCEPT !.scheduler_ = scheduler, !.timer_handle_ = FALSE],
         weight_map |-> c.weight_map,
         metrics |-> [stale_keys |-> c.stale_keys,
                      endpoint_weights |-> c.weights,
                      endpoint_weight_not_yet_usable |-> c.num_not_yet_usable,
                      endpoint_weight_stale |-> c.num_stale,
                      rr_fallback |-> IF scheduler = NoScheduler THEN 1 ELSE 0]]

\* The rebuild leaving the slot as it is when Make declines.
BuildSchedulerAndStartTimerLocked_KeepOnDecline(p, weight_map, t) ==
    LET c == CollectWeights(p.endpoints_, weight_map, t, p.config_)
        scheduler == StaticStrideSchedulerMake(c.weights)
    IN  [picker |-> [p EXCEPT !.scheduler_ = IF scheduler = NoScheduler THEN @
                                             ELSE scheduler,
                              !.timer_handle_ = TRUE],
         weight_map |-> c.weight_map,
         metrics |-> [stale_keys |-> c.stale_keys,
                      endpoint_weights |-> c.weights,
                      endpoint_weight_not_yet_usable |-> c.num_not_yet_usable,
                      endpoint_weight_stale |-> c.num_stale,
                      rr_fallback |-> IF scheduler = NoScheduler THEN 1 ELSE 0]]

\* Picker::BuildSchedulerAndStartTimerLocked for picker p at time t: the
\* picker with the new scheduler and timer, the weight map, and the metrics
\* recorded by this rebuild.
BuildSchedulerAndStartTimerLocked(p, weight_map, t) ==
    LET c == CollectWeights(p.endpoints_, weight_map, t, p.config_)
        scheduler == StaticStrideSchedulerMake(c.weights)
    IN  [picker |-> [p EXCEPT !.scheduler_ = scheduler, !.timer_handle_ = TRUE],
         weight_map |-> c.weight_map,
         metrics |-> [stale_keys |-> c.stale_keys,
                      endpoint_weights |-> c.weights,
                      endpoint_weight_not_yet_usable |-> c.num_not_yet_usable,
                      endpoint_weight_stale |-> c.num_stale,
                      rr_fallback |-> IF scheduler = NoScheduler THEN 1 ELSE 0]]

\* Picker constructor (lines 538-559) over the list l, with the random seed
\* of last_picked_index_.
NewPicker(l, cfg, weight_map, t, seed) ==
    BuildSchedulerAndStartTimerLocked(
        [live |-> TRUE, endpoints_ |-> ReadyKeys(l.endpoints), config_ |-> cfg,
         scheduler_ |-> NoScheduler, timer_handle_ |-> FALSE,
         last_picked_index_ |-> seed],
        weight_map, t)

\* The round-robin fallback with the modulus off by one.
RoundRobinIndex_OffByOne(p, fetched) == fetched % (Len(p.endpoints_) + 1)

\* The round-robin fallback advancing once every two picks.
RoundRobinIndex_HalfStep(p, fetched) == (fetched \div 2) % Len(p.endpoints_)

\* The round-robin fallback of PickIndex (line 607) with the value the
\* fetch_add on last_picked_index_ returned.
RoundRobinIndex(p, fetched) == fetched % Len(p.endpoints_)

NoMetrics == [present |-> FALSE]

\* Keys whose EndpointWeight a live picker references.
PickerKeys(P) ==
    UNION {{P[id].endpoints_[i] : i \in 1..Len(P[id].endpoints_)} :
           id \in {x \in PickerIds : P[x].live}}

\* The pickers that stay alive once the channel holds only picker `current`:
\* the others are orphaned and destroyed unless a pick in flight holds them.
ReleasePickers(P, current, thr) ==
    [id \in PickerIds |->
        IF id = current \/ \E t \in Threads : thr[t].picker = id
        THEN P[id] ELSE NoPicker]

FreePickerId(P) == CHOOSE id \in PickerIds :
                      /\ ~P[id].live
                      /\ \A x \in PickerIds : ~P[x].live => id <= x

\* The weight map once the references held by lists and pickers are those
\* of the given state: an EndpointWeight without references is destroyed and
\* erases its own entry (~EndpointWeight).
ReleaseWeights(weight_map, current, pending, P) ==
    [k \in Keys |->
        IF k \in ListKeys(current) \cup ListKeys(pending) \cup PickerKeys(P)
        THEN weight_map[k] ELSE NoWeight]

\* WeightedRoundRobin::GetOrCreateWeight for every key of a new list.
GetOrCreateWeights(weight_map, keys) ==
    [k \in Keys |->
        IF k \in {keys[i] : i \in 1..Len(keys)} /\ ~weight_map[k].live
        THEN NewEndpointWeight ELSE weight_map[k]]

(***************************************************************************)
(* History of one EndpointWeight, kept beside the program state to state   *)
(* the blackout and expiration laws; no handler reads it.                  *)
(*   created:          the time the record was constructed                 *)
(*   reconnect_report: Unarmed; InfFuture once its endpoint was notified   *)
(*                     READY after a state other than READY; then the      *)
(*                     time of the first non-zero report that followed     *)
(*   expiry_report:    Unarmed; InfFuture once a GetWeight call found the  *)
(*                     weight expired; then the time of the first non-zero *)
(*                     report that followed                                *)
(*   silence_report:   the time of the latest non-zero report that came at *)
(*                     least weight_expiration_period after the one before *)
(*   stale_again:      the latest GetWeight call that found the weight     *)
(*                     expired came after another one that did, with no    *)
(*                     non-zero report in between                          *)
(***************************************************************************)
Unarmed == 0 - 1

NoHistory ==
    [created |-> Unarmed, reconnect_report |-> Unarmed,
     expiry_report |-> Unarmed, silence_report |-> Unarmed,
     stale_again |-> FALSE]

\* The history of a record after one step: `before` and `after` are the
\* record around the step, call is what the step did.
NextHistory(h, k, before, after, call, t, weight_expiration_period) ==
    IF ~after.live THEN NoHistory
    ELSE
      LET h0 == IF before.live THEN h ELSE [NoHistory EXCEPT !.created = t]
          h1 == IF call.op = "OnStateUpdate" /\ call.reset_key = k
                THEN [h0 EXCEPT !.reconnect_report = InfFuture]
                ELSE h0
          h2 == IF call.op \in {"OnStateUpdate", "Timer"}
                   /\ call.metrics # NoMetrics
                   /\ k \in call.metrics.stale_keys
                THEN [h1 EXCEPT !.expiry_report = InfFuture,
                                !.stale_again = (h1.expiry_report = InfFuture)]
                ELSE h1
      IN  IF call.op \in {"Finish", "OnBackendMetricReport"}
             /\ call.key = k /\ call.weight > 0
          THEN [h2 EXCEPT
                  !.reconnect_report = IF @ = InfFuture THEN t ELSE @,
                  !.expiry_report = IF @ = InfFuture THEN t ELSE @,
                  !.stale_again = FALSE,
                  !.silence_report =
                      IF before.last_update_time_ # InfFuture
                         /\ t - before.last_update_time_ >=
                                weight_expiration_period
                      THEN t ELSE @]
          ELSE h2

(***************************************************************************)
(* Inputs                                                                  *)
(***************************************************************************)
RECURSIVE SeqsUpTo(_, _)
\* All sequences over S of length at most n.
SeqsUpTo(S, n) ==
    IF n = 0 THEN {<<>>}
    ELSE LET shorter == SeqsUpTo(S, n - 1)
         IN  shorter \cup {Append(q, x) : q \in shorter, x \in S}

\* args.addresses of an update: an address list or a resolver error.
AddressLists(K) == {[ok |-> TRUE, list |-> q] : q \in SeqsUpTo(K, MaxAddrs)}
AddressErrors == {[ok |-> FALSE, status |-> e] : e \in ErrorStatuses}

\* The status that accompanies a notification of new_state.
NotificationStatuses(new_state, errors) ==
    IF new_state = "TRANSIENT_FAILURE" THEN errors \cup {OkStatus}
    ELSE {OkStatus}

\* BackendMetricData values a backend reports.
BackendMetrics ==
    {[present |-> TRUE, qps |-> q, eps |-> e,
      application_utilization |-> a, cpu_utilization |-> c] :
        q \in {0, 2}, e \in {0, 1}, a \in {0, 1}, c \in {0, 2}}

ThreadIdle == [pc |-> "idle", picker |-> 0, scheduler |-> NoScheduler, index |-> 0]

NothingPublished ==
    [state |-> "NONE", status |-> OkStatus, picker_kind |-> "none", picker |-> 0]

RECURSIVE InsertSorted(_, _)
\* std::set<EndpointAddresses, EndpointAddressesLessThan>::insert
InsertSorted(ordered, key) ==
    IF ordered = <<>> THEN <<key>>
    ELSE IF key < Head(ordered) THEN <<key>> \o ordered
    ELSE IF Head(ordered) < key THEN <<Head(ordered)>> \o InsertSorted(Tail(ordered), key)
    ELSE ordered

RECURSIVE OrderedAddresses(_)
\* The ForEach loop of lines 744-747 over the address list.
OrderedAddresses(list) ==
    IF list = <<>> THEN <<>>
    ELSE InsertSorted(OrderedAddresses(SubSeq(list, 1, Len(list) - 1)),
                      list[Len(list)])

(***************************************************************************)
(* Handlers                                                                *)
(***************************************************************************)
\* The clock advances.
Tick ==
    /\ now < MaxTime
    /\ now' = now + 1
    /\ last_call' = [op |-> "Tick"]
    /\ UNCHANGED <<config_, endpoint_list_, latest_pending_endpoint_list_,
                   endpoint_weight_map_, shutdown_, scheduler_state_,
                   published, pickers, threads>>

\* EndpointList::ReportTransientFailure(status) (endpoint_list.cc is not part
\* of the sources at hand; from sections 4.E and 7 of the specification):
\* the UpdateState call that reports TRANSIENT_FAILURE with a picker that
\* fails every pick with `status`.
ReportTransientFailure(status) ==
    [state |-> "TRANSIENT_FAILURE", status |-> status,
     picker_kind |-> "fail", picker |-> 0]

\* The status of an empty list that reports "empty address list" whatever
\* the resolver said.
EmptyListStatus_IgnoresResolver(addresses) == EmptyAddressListStatus

\* The status with which an empty list fails (lines 778-780).
EmptyListStatus(addresses) ==
    IF addresses.ok THEN EmptyAddressListStatus ELSE addresses.status

\* An update that never keeps the existing list.
KeepsExistingList_Never(addresses, current) == FALSE

\* The test of lines 751-757: the update carries a resolver error and the
\* policy has an endpoint list, which it keeps.
KeepsExistingList(addresses, current) == ~addresses.ok /\ current.live

\* An update that never takes itself for the initial one.
IsInitialUpdate_Never(current) == FALSE

\* An update that also takes an active list without READY endpoint for
\* absent.
IsInitialUpdate_WhenNotReady(current) ==
    ~current.live \/ current.num_ready_ = 0

\* The test of line 787: endpoint_list_ is null.
IsInitialUpdate(current) == ~current.live

\* A counter that an update leaves as it is.
IncrementWrrUpdates_Never(count) == count

\* global_stats().IncrementWrrUpdates() (line 721), the first statement of
\* UpdateLocked: the counter after it.
IncrementWrrUpdates(count) == count + 1

\* WeightedRoundRobin::UpdateLocked(args) with args.config = cfg; the
\* wrr_updates of last_call is the increase of the counter by the call.
UpdateLocked(addresses, cfg) ==
    /\ ~shutdown_
    /\ config_' = cfg
    /\ IF KeepsExistingList(addresses, endpoint_list_)
       THEN \* lines 755-757: keep using the existing list
            /\ last_call' = [op |-> "UpdateLocked", ok |-> FALSE,
                             wrr_updates |-> IncrementWrrUpdates(0),
                             ret |-> addresses.status, update |-> <<>>,
                             addresses |-> addresses]
            /\ UNCHANGED <<endpoint_list_, latest_pending_endpoint_list_,
                           endpoint_weight_map_, published, pickers>>
       ELSE LET keys == IF addresses.ok THEN OrderedAddresses(addresses.list)
                        ELSE <<>>
                weights1 == GetOrCreateWeights(endpoint_weight_map_, keys)
                new_list == NewEndpointList(keys)
            IN  IF Size(new_list) = 0
                THEN \* lines 772-784
                     LET status == EmptyListStatus(addresses)
                         call == ReportTransientFailure(status)
                     IN  /\ endpoint_list_' = new_list
                         /\ latest_pending_endpoint_list_' = NoList
                         /\ published' = call
                         /\ pickers' = ReleasePickers(pickers, 0, threads)
                         /\ endpoint_weight_map_' =
                                ReleaseWeights(weights1, new_list, NoList, pickers')
                         /\ last_call' = [op |-> "UpdateLocked", ok |-> addresses.ok,
                                          wrr_updates |-> IncrementWrrUpdates(0),
                                          ret |-> status,
                                          update |-> <<call>>,
                                          addresses |-> addresses]
                ELSE \* lines 787-794
                     /\ IF IsInitialUpdate(endpoint_list_)
                        THEN /\ endpoint_list_' = new_list
                             /\ latest_pending_endpoint_list_' = NoList
                        ELSE /\ endpoint_list_' = endpoint_list_
                             /\ latest_pending_endpoint_list_' = new_list
                     /\ endpoint_weight_map_' =
                            ReleaseWeights(weights1, endpoint_list_',
                                           latest_pending_endpoint_list_', pickers)
                     /\ last_call' = [op |-> "UpdateLocked", ok |-> TRUE,
                                      wrr_updates |-> IncrementWrrUpdates(0),
                                      ret |-> OkStatus,
                                      update |-> <<>>, addresses |-> addresses]
                     /\ UNCHANGED <<published, pickers>>
    /\ UNCHANGED <<now, shutdown_, scheduler_state_, threads>>

\* A test that restarts the blackout at every READY notification.
ShouldResetNonEmptySince_OnEveryReady(old_state, new_state) ==
    new_state = "READY"

\* The tests of lines 865 and 879: the endpoint becomes READY after a state
\* other than READY ("NONE": it had no state yet).
ShouldResetNonEmptySince(old_state, new_state) ==
    /\ new_state = "READY"
    /\ old_state # "NONE"
    /\ old_state # "READY"

\* A test that takes every list for the current one.
IsCurrentList_Always(which, swap) == TRUE

\* The test of line 949, after the swap of lines 936-947: the list whose
\* endpoint was notified is endpoint_list_.
IsCurrentList(which, swap) == which = "active" \/ swap

\* WrrEndpoint::OnStateUpdate(old_state, new_state, status) for endpoint i of
\* the list `which` ("active": endpoint_list_, "pending":
\* latest_pending_endpoint_list_), with
\* MaybeUpdateAggregatedConnectivityStateLocked(status).  old_state is the
\* state the endpoint held; seed is the random seed of a picker built here.
OnStateUpdate(which, i, new_state, status, seed) ==
    LET l0 == IF which = "active" THEN endpoint_list_
              ELSE latest_pending_endpoint_list_
    IN
    /\ l0.live
    /\ i \in 1..Size(l0)
    /\ LET old_state == l0.endpoints[i].connectivity_state_
           key == l0.endpoints[i].key
           l1 == [l0 EXCEPT !.endpoints[i].connectivity_state_ = new_state]
           \* lines 865-882
           reset == ShouldResetNonEmptySince(old_state, new_state)
           weights1 == IF reset
                       THEN [endpoint_weight_map_ EXCEPT
                               ![key] = ResetNonEmptySince(@)]
                       ELSE endpoint_weight_map_
           \* lines 884-886
           l2 == IF old_state = "NONE" \/ old_state # new_state
                 THEN UpdateStateCountersLocked(l1, old_state, new_state)
                 ELSE l1
           \* lines 936-947
           swap == which = "pending" /\ ShouldSwapPending(endpoint_list_, l2)
           \* line 949
           is_current == IsCurrentList(which, swap)
           agg == IF is_current THEN AggregatedState(l2) ELSE "NONE"
           l3 == IF agg = "TRANSIENT_FAILURE"
                 THEN [l2 EXCEPT !.last_failure_ = LastFailureAfter(l2, status)]
                 ELSE l2
           current1 == IF is_current THEN l3 ELSE endpoint_list_
           pending1 == IF which = "active" THEN latest_pending_endpoint_list_
                       ELSE IF swap THEN NoList ELSE l3
           built == NewPicker(l3, config_, weights1, now, seed)
           \* the picker the channel holds is released by this publication;
           \* its identity is free again unless a pick in flight holds it
           remaining == ReleasePickers(pickers, 0, threads)
           id == FreePickerId(remaining)
           call == IF agg = "READY"
                   THEN [state |-> "READY", status |-> OkStatus,
                         picker_kind |-> "wrr", picker |-> id]
                   ELSE IF agg = "CONNECTING"
                   THEN [state |-> "CONNECTING", status |-> OkStatus,
                         picker_kind |-> "queue", picker |-> 0]
                   ELSE ReportTransientFailure(l3.last_failure_)
           weights2 == IF agg = "READY" THEN built.weight_map ELSE weights1
       IN  /\ endpoint_list_' = current1
           /\ latest_pending_endpoint_list_' = pending1
           /\ IF agg = "NONE"
              THEN UNCHANGED <<published, pickers>>
              ELSE /\ published' = call
                   /\ pickers' = IF agg = "READY"
                                 THEN [remaining EXCEPT ![id] = built.picker]
                                 ELSE remaining
           /\ endpoint_weight_map_' =
                  ReleaseWeights(weights2, current1, pending1, pickers')
           /\ last_call' =
                  [op |-> "OnStateUpdate", list |-> which, swapped |-> swap,
                   over_ready |-> swap /\ endpoint_list_.num_ready_ > 0,
                   endpoint |-> i, status |-> status,
                   reset_key |-> IF reset THEN key ELSE 0,
                   update |-> IF agg = "NONE" THEN <<>> ELSE <<call>>,
                   metrics |-> IF agg = "READY" THEN built.metrics ELSE NoMetrics]
    /\ UNCHANGED <<now, config_, shutdown_, scheduler_state_, threads>>

\* A shutdown that keeps the pending list.
ShutdownLocked_KeepsPending ==
    /\ ~shutdown_
    /\ shutdown_' = TRUE
    /\ endpoint_list_' = NoList
    /\ endpoint_weight_map_' =
           ReleaseWeights(endpoint_weight_map_, NoList,
                          latest_pending_endpoint_list_, pickers)
    /\ last_call' = [op |-> "ShutdownLocked"]
    /\ UNCHANGED <<now, config_, latest_pending_endpoint_list_, scheduler_state_,
                   published, pickers, threads>>

\* WeightedRoundRobin::ShutdownLocked
ShutdownLocked ==
    /\ ~shutdown_
    /\ shutdown_' = TRUE
    /\ endpoint_list_' = NoList
    /\ latest_pending_endpoint_list_' = NoList
    /\ endpoint_weight_map_' =
           ReleaseWeights(endpoint_weight_map_, NoList, NoList, pickers)
    /\ last_call' = [op |-> "ShutdownLocked"]
    /\ UNCHANGED <<now, config_, scheduler_state_, published, pickers, threads>>

(***************************************************************************)
(* Spec: the control plane.  Resolver updates, endpoint state              *)
(* notifications and shutdown, in any order the work serializer may run    *)
(* them.  No load report arrives and the clock stands still.               *)
(***************************************************************************)
DefaultConfig ==
    [blackout_period |-> 2, weight_expiration_period |-> 3,
     error_utilization_penalty |-> 1]

\* No pick was observed: `rr` holds, for each picker, the indexes its latest
\* round-robin picks returned (oldest first), `count` the number of picks
\* that returned each index.
NothingPicked ==
    [rr |-> [id \in PickerIds |-> <<>>], count |-> [i \in 0..(NumKeys - 1) |-> 0]]

(***************************************************************************)
(* Objects and mutexes, for the specifications in which a reference count  *)
(* and a mutex are taken and released in steps of their own.               *)
(***************************************************************************)
\* Number of addresses at which an EndpointWeight can be allocated.
MaxObjects == 3
\* Largest strong reference count of an EndpointWeight.
MaxRefs == 2
\* Number of threads that run the functions that lock.
NumLockThreads == 3
\* The timers of one picker the event engine is let to hold at a time.
MaxTimers == 2

WeightIds == 1..MaxObjects
LockThreads == 1..NumLockThreads
\* The keys of the endpoints of the picker whose mutexes are followed.
LockKeys == 1..2

\* Memory that holds no EndpointWeight.
FreeObject == [state |-> "free"]

\* Picker::timer_mu_ (line 386), Picker::scheduler_mu_ (line 382),
\* WeightedRoundRobin::endpoint_weight_map_mu_ (line 411) and
\* EndpointWeight::mu_ of the EndpointWeight of key k (line 223).
timer_mu_ == <<"timer_mu_", 0>>
scheduler_mu_ == <<"scheduler_mu_", 0>>
endpoint_weight_map_mu_ == <<"endpoint_weight_map_mu_", 0>>
mu_(k) == <<"mu_", k>>

Mutexes ==
    {timer_mu_, scheduler_mu_, endpoint_weight_map_mu_}
        \cup {mu_(k) : k \in LockKeys}

\* A thread outside the functions that lock.
NotRunning == [op |-> "none"]

\* The addresses at which a StaticStrideScheduler can be allocated: the
\* slot of the picker, a pick and a rebuild each hold one.
SchedulerIds == 1..NumLockThreads

\* Memory that holds no StaticStrideScheduler.
NoSchedulerObject == [refs |-> 0, weights |-> <<>>]

\* A picker whose constructor has not yet taken timer_mu_ (line 557): no
\* scheduler (scheduler_ null), no timer handle, no timer with the event
\* engine (`pending` counts the timers scheduled that have neither run nor
\* been cancelled), the picker not yet given to the channel (`constructed`);
\* the member initializer has stored the reference to the policy (wrr_,
\* line 540).
InitShared ==
    [timer_handle_ |-> FALSE, pending |-> 0, constructed |-> FALSE,
     orphaned |-> FALSE, scheduler_ |-> 0, wrr_ |-> TRUE,
     weight_ |-> [k \in LockKeys |-> 0],
     schedulers |-> [id \in SchedulerIds |-> NoSchedulerObject]]

InitLifetime ==
    /\ weight_objects = [id \in WeightIds |-> FreeObject]
    /\ map_entries = [k \in Keys |-> 0]
    /\ mutexes = [m \in Mutexes |-> 0]
    /\ running = [t \in LockThreads |-> NotRunning]
    /\ shared = InitShared
    /\ calls = <<>>
    /\ channel_released = FALSE

\* The policy after its constructor, before the first update.
InitPolicy ==
    /\ now = 0
    /\ endpoint_list_ = NoList
    /\ latest_pending_endpoint_list_ = NoList
    /\ endpoint_weight_map_ = [k \in Keys |-> NoWeight]
    /\ shutdown_ = FALSE
    /\ published = NothingPublished
    /\ pickers = [id \in PickerIds |-> NoPicker]
    /\ threads = [t \in Threads |-> ThreadIdle]
    /\ last_call = [op |-> "Init"]
    /\ hist = [k \in Keys |-> NoHistory]
    /\ picked = NothingPicked
    /\ InitLifetime

\* scheduler_state_ is seeded at random (line 420); no step of Spec or
\* SpecWeight reads it, InitPick draws it.
Init ==
    /\ InitPolicy
    /\ config_ = DefaultConfig
    /\ scheduler_state_ = 0

Notify(which, states, seeds, errors) ==
    \E i \in 1..NumKeys, new_state \in states, seed \in seeds :
        \E status \in NotificationStatuses(new_state, errors) :
            OnStateUpdate(which, i, new_state, status, seed)

\* The resolver updates of Spec carry addresses of the first MaxAddrs keys.
UpdateKeys == 1..MaxAddrs

Next ==
    \/ /\ \E a \in AddressLists(UpdateKeys) \cup AddressErrors :
              UpdateLocked(a, DefaultConfig)
       /\ UNCHANGED <<hist, picked, lifetime_vars>>
    \/ /\ Notify("active", ConnectivityStates, {0}, ErrorStatuses)
       /\ UNCHANGED <<hist, picked, lifetime_vars>>
    \/ /\ Notify("pending", ConnectivityStates, {0}, ErrorStatuses)
       /\ UNCHANGED <<hist, picked, lifetime_vars>>
    \/ /\ ShutdownLocked
       /\ UNCHANGED <<hist, picked, lifetime_vars>>

Spec == Init /\ [][Next]_vars

(***************************************************************************)
(* Load reports and scheduler rebuilds                                     *)
(***************************************************************************)
\* A call that a live picker routed to endpoint k completes with trailing
\* metrics `data` (NoData: the trailers carry none):
\* SubchannelCallTracker::Finish.
Finish(k, data) ==
    /\ k \in PickerKeys(pickers)
    /\ endpoint_weight_map_' =
           [endpoint_weight_map_ EXCEPT ![k] =
               SubchannelCallTrackerFinish(@, data,
                   config_.error_utilization_penalty, now)]
    /\ last_call' =
           [op |-> "Finish", key |-> k, data |-> data,
            weight |-> IF data = NoData THEN 0
                       ELSE ComputeWeight(data.qps, data.eps, Utilization(data),
                                          config_.error_utilization_penalty)]
    /\ UNCHANGED <<now, config_, endpoint_list_, latest_pending_endpoint_list_,
                   shutdown_, scheduler_state_, published, pickers, threads>>

\* The keys of the endpoints of list l that are connected.
ConnectedKeys(l) ==
    IF l.live
    THEN {l.endpoints[i].key :
              i \in {j \in 1..Size(l) : l.endpoints[j].connectivity_state_ = "READY"}}
    ELSE {}

\* The out-of-band watcher of the connected endpoint k delivers `data`.
OobReport(k, data) ==
    /\ k \in ConnectedKeys(endpoint_list_)
               \cup ConnectedKeys(latest_pending_endpoint_list_)
    /\ endpoint_weight_map_' =
           [endpoint_weight_map_ EXCEPT ![k] =
               OnBackendMetricReport(@, data,
                   config_.error_utilization_penalty, now)]
    /\ last_call' =
           [op |-> "OnBackendMetricReport", key |-> k, data |-> data,
            weight |-> ComputeWeight(data.qps, data.eps, Utilization(data),
                                     config_.error_utilization_penalty)]
    /\ UNCHANGED <<now, config_, endpoint_list_, latest_pending_endpoint_list_,
                   shutdown_, scheduler_state_, published, pickers, threads>>

\* The timer callback of picker id (lines 669-680): rebuilds the scheduler
\* unless the picker was orphaned (timer_handle_ reset).
TimerFired(id) ==
    /\ pickers[id].live
    /\ pickers[id].timer_handle_
    /\ UNCHANGED <<now, config_, endpoint_list_, latest_pending_endpoint_list_,
                   shutdown_, scheduler_state_, published, threads>>
    /\ \E built \in {BuildSchedulerAndStartTimerLocked(
                          pickers[id], endpoint_weight_map_, now)} :
           /\ pickers' = [pickers EXCEPT ![id] = built.picker]
           /\ endpoint_weight_map_' = built.weight_map
           /\ last_call' = [op |-> "Timer", picker |-> id,
                            metrics |-> built.metrics]

\* The history follows the step.
KeepHistory ==
    hist' = [k \in Keys |->
                NextHistory(hist[k], k, endpoint_weight_map_[k],
                            endpoint_weight_map_'[k], last_call', now,
                            config_.weight_expiration_period)]

\* The metrics a backend reports in SpecWeight: none usable (qps = 0), a
\* light load and a load with errors.
ReportedMetrics ==
    {d \in BackendMetrics :
        \/ d.qps = 0 /\ d.eps = 0 /\ d.application_utilization = 0
              /\ d.cpu_utilization = 0
        \/ d.qps = 2 /\ d.eps = 0 /\ d.application_utilization = 1
              /\ d.cpu_utilization = 0
        \/ d.qps = 2 /\ d.eps = 1 /\ d.application_utilization = 0
              /\ d.cpu_utilization = 2}

\* The trailing metrics of a call in SpecWeight: none, those of
\* ReportedMetrics, and queries without any utilization.
TrailingMetrics ==
    ReportedMetrics
        \cup {NoData}
        \cup {d \in BackendMetrics :
                 d.qps = 2 /\ d.eps = 0 /\ d.application_utilization = 0
                     /\ d.cpu_utilization = 0}

\* The address lists of SpecWeight.
WeightAddressLists == {[ok |-> TRUE, list |-> q] : q \in {<<1>>}}

NextWeight ==
    \/ /\ Tick
       /\ KeepHistory
       /\ UNCHANGED <<picked, lifetime_vars>>
    \/ /\ \E a \in WeightAddressLists : UpdateLocked(a, DefaultConfig)
       /\ KeepHistory
       /\ UNCHANGED <<picked, lifetime_vars>>
    \/ /\ Notify("active", ConnectivityStates, {0}, {})
       /\ KeepHistory
       /\ UNCHANGED <<picked, lifetime_vars>>
    \/ /\ Notify("pending", ConnectivityStates, {0}, {})
       /\ KeepHistory
       /\ UNCHANGED <<picked, lifetime_vars>>
    \/ /\ \E k \in Keys, data \in TrailingMetrics : Finish(k, data)
       /\ KeepHistory
       /\ UNCHANGED <<picked, lifetime_vars>>
    \/ /\ \E k \in Keys, data \in ReportedMetrics : OobReport(k, data)
       /\ KeepHistory
       /\ UNCHANGED <<picked, lifetime_vars>>
    \/ /\ \E id \in PickerIds : TimerFired(id)
       /\ KeepHistory
       /\ UNCHANGED <<picked, lifetime_vars>>

\* The policy with load reports, the clock and the rebuild timers.
SpecWeight == Init /\ [][NextWeight]_vars

(***************************************************************************)
(* The data plane: Picker::Pick on the picker the channel holds            *)
(***************************************************************************)
\* The picker the channel holds (0: none of this policy): the last one it
\* was given, until it lets go of it.
ChannelPicker ==
    IF published.picker_kind = "wrr" /\ ~channel_released
    THEN published.picker ELSE 0

\* Thread t enters Pick on the channel's picker and PickIndex copies the
\* scheduler reference under scheduler_mu_ (lines 598-602).
PickBegin(t) ==
    /\ threads[t].pc = "idle"
    /\ ChannelPicker # 0
    /\ threads' = [threads EXCEPT ![t] =
                      [pc |-> "picking", picker |-> ChannelPicker,
                       scheduler |-> pickers[ChannelPicker].scheduler_,
                       index |-> 0]]
    /\ last_call' = [op |-> "PickBegin"]
    /\ UNCHANGED <<now, config_, endpoint_list_, latest_pending_endpoint_list_,
                   endpoint_weight_map_, shutdown_, scheduler_state_, published,
                   pickers, hist>>

\* The thread leaves Pick with `index`; the picker is destroyed with its
\* last reference.
PickReturn(t, index, P) ==
    /\ threads' = [threads EXCEPT ![t] = ThreadIdle]
    /\ pickers' = ReleasePickers(P, ChannelPicker, threads')
    /\ endpoint_weight_map_' =
           ReleaseWeights(endpoint_weight_map_, endpoint_list_,
                          latest_pending_endpoint_list_, pickers')
    /\ last_call' = [op |-> "Pick", picker |-> threads[t].picker,
                     index |-> index,
                     wrr |-> threads[t].scheduler # NoScheduler]

\* One step of PickIndex in thread t (lines 603-607): an iteration of the
\* scheduler's loop, each taking the next value of scheduler_state_, or the
\* round-robin fallback on last_picked_index_.  scheduler_state_ wraps at
\* sequences.
PickIndexStep(t, sequences) ==
    /\ threads[t].pc = "picking"
    /\ LET id == threads[t].picker
           scheduler == threads[t].scheduler
       IN  IF scheduler # NoScheduler
           THEN /\ scheduler_state_' = (scheduler_state_ + 1) % sequences
                /\ IF StaticStrideSchedulerAccepts(scheduler, scheduler_state_)
                   THEN PickReturn(t,
                            StaticStrideSchedulerCandidate(scheduler,
                                                           scheduler_state_),
                            pickers)
                   ELSE /\ last_call' = [op |-> "PickRetry"]
                        /\ UNCHANGED <<threads, pickers, endpoint_weight_map_>>
           ELSE /\ PickReturn(t,
                       RoundRobinIndex(pickers[id], pickers[id].last_picked_index_),
                       [pickers EXCEPT ![id].last_picked_index_ =
                           (@ + 1) % CounterModulus])
                /\ UNCHANGED scheduler_state_
    /\ UNCHANGED <<now, config_, endpoint_list_, latest_pending_endpoint_list_,
                   shutdown_, published, hist>>

PickStep(t) == PickIndexStep(t, CounterModulus)

\* The configuration of SpecPick: no blackout, so that reported weights are
\* usable at once.
PickConfig ==
    [blackout_period |-> 0, weight_expiration_period |-> 3,
     error_utilization_penalty |-> 1]

\* scheduler_state_ and last_picked_index_ start at random values.
CounterSeeds == {0, CounterModulus - 1}

InitPick ==
    /\ InitPolicy
    /\ config_ = PickConfig
    /\ scheduler_state_ \in CounterSeeds

\* The metrics the backend of endpoint k reports in SpecPick: a light load
\* from the first, a load with errors from the others.
PickMetrics(k) ==
    {d \in ReportedMetrics : d.qps > 0 /\ (d.eps = 0 <=> k = 1)}

NextPick ==
    \/ /\ ~endpoint_list_.live
       /\ UpdateLocked([ok |-> TRUE, list |-> <<1, 2>>], PickConfig)
       /\ UNCHANGED <<hist, picked, lifetime_vars>>
    \/ /\ Notify("active", {"READY", "TRANSIENT_FAILURE"}, CounterSeeds, {})
       /\ UNCHANGED <<hist, picked, lifetime_vars>>
    \/ /\ \E k \in Keys : \E data \in PickMetrics(k) : OobReport(k, data)
       /\ UNCHANGED <<hist, picked, lifetime_vars>>
    \/ /\ \E id \in PickerIds : TimerFired(id)
       /\ UNCHANGED <<hist, picked, lifetime_vars>>
    \/ /\ \E t \in Threads : PickBegin(t)
       /\ UNCHANGED <<picked, lifetime_vars>>
    \/ /\ \E t \in Threads : PickStep(t)
       /\ UNCHANGED <<picked, lifetime_vars>>

\* One address list of two endpoints, load reports, rebuild timers and
\* threads that pick.
SpecPick == InitPick /\ [][NextPick]_vars

(***************************************************************************)
(* The round-robin fallback: pickers of two and of three endpoints that    *)
(* never get a scheduler, since no backend reports its load.               *)
(***************************************************************************)
\* The last n elements of sequence q.
LastOf(q, n) == IF Len(q) <= n THEN q ELSE SubSeq(q, Len(q) - n + 1, Len(q))

\* TRUE iff `call` published a new picker under identity id.
PublishedPicker(call, id) ==
    /\ call.op = "OnStateUpdate"
    /\ call.update # <<>>
    /\ call.update[1].picker_kind = "wrr"
    /\ call.update[1].picker = id

\* The observation of the round-robin picks follows the step: the record of
\* a picker starts empty and gets the index of each of its picks that took
\* the fallback, the latest NumKeys of them being kept.
KeepPicked ==
    picked' =
        [picked EXCEPT !.rr =
            [id \in PickerIds |->
                IF ~pickers'[id].live \/ PublishedPicker(last_call', id)
                THEN <<>>
                ELSE IF /\ last_call'.op = "Pick"
                        /\ ~last_call'.wrr
                        /\ last_call'.picker = id
                THEN LastOf(Append(picked.rr[id], last_call'.index), NumKeys)
                ELSE picked.rr[id]]]

\* The address lists of SpecRoundRobin.
RoundRobinLists == {[ok |-> TRUE, list |-> q] : q \in {<<1, 2>>, <<1, 2, 3>>}}

InitRoundRobin ==
    /\ InitPolicy
    /\ config_ = PickConfig
    /\ scheduler_state_ = 0

NextRoundRobin ==
    \/ /\ ~endpoint_list_.live
       /\ \E a \in RoundRobinLists : UpdateLocked(a, PickConfig)
       /\ KeepPicked
       /\ UNCHANGED lifetime_vars
       /\ UNCHANGED hist
    \/ /\ Notify("active", {"READY"}, CounterSeeds, {})
       /\ KeepPicked
       /\ UNCHANGED lifetime_vars
       /\ UNCHANGED hist
    \/ /\ \E t \in Threads : PickBegin(t)
       /\ KeepPicked
       /\ UNCHANGED lifetime_vars
    \/ /\ \E t \in Threads : PickStep(t)
       /\ KeepPicked
       /\ UNCHANGED lifetime_vars

\* One address list of two or three endpoints that become READY, and threads
\* that pick.
SpecRoundRobin == InitRoundRobin /\ [][NextRoundRobin]_vars

(***************************************************************************)
(* Rebuilds of a picker of two endpoints while weights are reported, pass  *)
(* the blackout period and expire, with picks between the rebuilds.  Each  *)
(* backend reports its load once.                                          *)
(***************************************************************************)
InitRebuild ==
    /\ InitPolicy
    /\ config_ = DefaultConfig
    /\ scheduler_state_ = 0

NextRebuild ==
    \/ /\ ~endpoint_list_.live
       /\ UpdateLocked([ok |-> TRUE, list |-> <<1, 2>>], DefaultConfig)
       /\ UNCHANGED <<hist, picked, lifetime_vars>>
    \/ /\ Notify("active", {"READY"}, {0}, {})
       /\ UNCHANGED <<hist, picked, lifetime_vars>>
    \/ /\ \E k \in Keys : \E data \in PickMetrics(k) :
              /\ endpoint_weight_map_[k].live
              /\ endpoint_weight_map_[k].last_update_time_ = InfFuture
              /\ OobReport(k, data)
       /\ UNCHANGED <<hist, picked, lifetime_vars>>
    \/ /\ Tick
       /\ UNCHANGED <<hist, picked, lifetime_vars>>
    \/ /\ \E id \in PickerIds : TimerFired(id)
       /\ UNCHANGED <<hist, picked, lifetime_vars>>
    \/ /\ \E t \in Threads : PickBegin(t)
       /\ UNCHANGED <<picked, lifetime_vars>>
    \/ /\ \E t \in Threads : PickStep(t)
       /\ UNCHANGED <<picked, lifetime_vars>>

SpecRebuild == InitRebuild /\ [][NextRebuild]_vars

\* The timer callback of picker id as a step of NextRebuild.
RebuildTimer(id) ==
    /\ TimerFired(id)
    /\ UNCHANGED <<hist, picked, lifetime_vars>>

\* The control plane and the reports of SpecRebuild, without the picks.
NextRebuildFair ==
    \/ /\ ~endpoint_list_.live
       /\ UpdateLocked([ok |-> TRUE, list |-> <<1, 2>>], DefaultConfig)
       /\ UNCHANGED <<hist, picked, lifetime_vars>>
    \/ /\ Notify("active", {"READY"}, {0}, {})
       /\ UNCHANGED <<hist, picked, lifetime_vars>>
    \/ /\ \E k \in Keys : \E data \in PickMetrics(k) :
              /\ endpoint_weight_map_[k].live
              /\ endpoint_weight_map_[k].last_update_time_ = InfFuture
              /\ OobReport(k, data)
       /\ UNCHANGED <<hist, picked, lifetime_vars>>
    \/ /\ Tick
       /\ UNCHANGED <<hist, picked, lifetime_vars>>
    \/ \E id \in PickerIds : RebuildTimer(id)

\* The rebuilds with an event engine that runs every timer it was given:
\* a timer that stays scheduled is run in the end.
SpecRebuildFair ==
    /\ InitRebuild
    /\ [][NextRebuildFair]_vars
    /\ \A id \in PickerIds : WF_vars(RebuildTimer(id))

(***************************************************************************)
(* Weighted picks: three READY endpoints whose backends reported 1, 2 and  *)
(* 3 queries per second at full utilization, the blackout period over, and *)
(* a thread that picks PickWindow times.                                   *)
(***************************************************************************)
\* Number of consecutive picks observed.
PickWindow == 600

\* scheduler_state_ is a uint32_t (line 420); the runs of SpecProportion
\* start at small seeds and draw fewer than SequenceLimit sequence numbers,
\* so the counter does not wrap in them.
SequenceLimit == 3 * PickWindow

\* The seeds of scheduler_state_ in SpecProportion: every phase of the first
\* generations of the scheduler.
ProportionSeeds == 0..8

RECURSIVE NotifiedReady(_, _)
\* The list l after the first notification, READY, of its first i endpoints
\* (OnStateUpdate, lines 884-886).
NotifiedReady(l, i) ==
    IF i = 0 THEN l
    ELSE LET before == NotifiedReady(l, i - 1)
         IN  UpdateStateCountersLocked(
                 [before EXCEPT !.endpoints[i].connectivity_state_ = "READY"],
                 "NONE", "READY")

\* The EndpointWeight of key k after its backend reported k queries per
\* second without errors at utilization 1, at time 0.
ReportedWeight(k) ==
    MaybeUpdateWeight(NewEndpointWeight, k, 0, 1,
                      DefaultConfig.error_utilization_penalty, 0)

\* The state after UpdateLocked with the addresses 1, 2, 3, the READY
\* notification of each endpoint, a report of each backend at time 0 and,
\* once blackout_period has passed, the rebuild of the published picker
\* (whose last_picked_index_ was seeded with 0).
InitProportion ==
    LET list == NotifiedReady(NewEndpointList(<<1, 2, 3>>), 3)
        built == NewPicker(list, DefaultConfig,
                           [k \in Keys |-> IF k \in 1..3 THEN ReportedWeight(k)
                                           ELSE NoWeight],
                           DefaultConfig.blackout_period, 0)
    IN  /\ now = DefaultConfig.blackout_period
        /\ config_ = DefaultConfig
        /\ endpoint_list_ = list
        /\ latest_pending_endpoint_list_ = NoList
        /\ endpoint_weight_map_ = built.weight_map
        /\ shutdown_ = FALSE
        /\ scheduler_state_ \in ProportionSeeds
        /\ published = [state |-> "READY", status |-> OkStatus,
                        picker_kind |-> "wrr", picker |-> 1]
        /\ pickers = [id \in PickerIds |->
                         IF id = 1 THEN built.picker ELSE NoPicker]
        /\ threads = [t \in Threads |-> ThreadIdle]
        /\ last_call = [op |-> "Init"]
        /\ hist = [k \in Keys |-> NoHistory]
        /\ picked = NothingPicked
        /\ InitLifetime

\* The number of picks observed.
PickCount == SeqSum([i \in 1..NumKeys |-> picked.count[i - 1]])

\* The observation of the picks follows the step: the index a pick returned
\* is counted.
KeepCount ==
    picked' = IF last_call'.op = "Pick"
              THEN [picked EXCEPT !.count[last_call'.index] = @ + 1]
              ELSE picked

NextProportion ==
    \/ /\ PickCount < PickWindow
       /\ \E t \in Threads : PickBegin(t)
       /\ KeepCount
       /\ UNCHANGED lifetime_vars
    \/ /\ \E t \in Threads : PickIndexStep(t, SequenceLimit)
       /\ KeepCount
       /\ UNCHANGED lifetime_vars

SpecProportion == InitProportion /\ [][NextProportion]_vars

(***************************************************************************)
(* The weight map with its objects: GetOrCreateWeight on the work          *)
(* serializer, reference counts taken and dropped by any thread, and the   *)
(* destructor of an EndpointWeight as a step of its own, some time after   *)
(* the count reached zero.  GetOrCreateWeight and the destructor hold      *)
(* endpoint_weight_map_mu_ from their first to their last statement, so    *)
(* each is one step.                                                       *)
(***************************************************************************)
\* The address of the next allocation.
FreeWeightId ==
    CHOOSE id \in WeightIds :
        /\ weight_objects[id].state = "free"
        /\ \A x \in WeightIds : weight_objects[x].state = "free" => id <= x

\* RefCounted::RefIfNonZero on the object at address id: TRUE iff the
\* strong count was not zero, and then it is incremented.
RefIfNonZero(id) == weight_objects[id].refs > 0

\* std::map::emplace(key, ptr): inserts unless the key has an entry.
Emplace(entries, key, ptr) ==
    IF entries[key] = 0 THEN [entries EXCEPT ![key] = ptr] ELSE entries

\* The destructor erasing whatever entry its key has.
EraseOwnEntry_AnyPointer(entries, key, this) == [entries EXCEPT ![key] = 0]

\* ~EndpointWeight, lines 430-433: the entry of key_ is erased if it points
\* to this object.
EraseOwnEntry(entries, key, this) ==
    IF entries[key] # 0 /\ entries[key] = this
    THEN [entries EXCEPT ![key] = 0]
    ELSE entries

\* WeightedRoundRobin::GetOrCreateWeight (lines 797-811) for the address
\* set `key`.
GetOrCreateWeight(key) ==
    /\ LET it == map_entries[key]
       IN  IF it # 0 /\ RefIfNonZero(it)
           THEN /\ weight_objects[it].refs < MaxRefs
                /\ weight_objects' = [weight_objects EXCEPT ![it].refs = @ + 1]
                /\ UNCHANGED map_entries
                /\ last_call' = [op |-> "GetOrCreateWeight", key |-> key,
                                 ret |-> it, created |-> FALSE]
           ELSE /\ \E id \in WeightIds : weight_objects[id].state = "free"
                /\ weight_objects' =
                       [weight_objects EXCEPT ![FreeWeightId] =
                           [state |-> "live", key_ |-> key, refs |-> 1,
                            weight_ |-> 0]]
                /\ map_entries' = Emplace(map_entries, key, FreeWeightId)
                /\ last_call' = [op |-> "GetOrCreateWeight", key |-> key,
                                 ret |-> FreeWeightId, created |-> TRUE]
    /\ UNCHANGED <<policy_vars, mutexes, running, shared, calls, channel_released>>

\* A holder of a reference copies it (the picker's snapshot, line 547; a
\* call tracker, line 586).
RefWeight(id) ==
    /\ weight_objects[id].state = "live"
    /\ weight_objects[id].refs < MaxRefs
    /\ weight_objects' = [weight_objects EXCEPT ![id].refs = @ + 1]
    /\ last_call' = [op |-> "Ref", id |-> id]
    /\ UNCHANGED <<policy_vars, map_entries, mutexes, running, shared, calls,
                   channel_released>>

\* A holder drops its reference, on whatever thread it runs; at zero the
\* thread goes on to the destructor.
UnrefWeight(id) ==
    /\ weight_objects[id].state = "live"
    /\ weight_objects' =
           [weight_objects EXCEPT
               ![id].refs = @ - 1,
               ![id].state = IF weight_objects[id].refs = 1 THEN "dying"
                             ELSE "live"]
    /\ last_call' = [op |-> "Unref", id |-> id]
    /\ UNCHANGED <<policy_vars, map_entries, mutexes, running, shared, calls,
                   channel_released>>

\* EndpointWeight::~EndpointWeight (lines 428-434) of the object at address
\* id, after which its memory is free.
DestroyWeight(id) ==
    /\ weight_objects[id].state = "dying"
    /\ map_entries' = EraseOwnEntry(map_entries, weight_objects[id].key_, id)
    /\ weight_objects' = [weight_objects EXCEPT ![id] = FreeObject]
    /\ last_call' = [op |-> "~EndpointWeight", id |-> id,
                     key |-> weight_objects[id].key_]
    /\ UNCHANGED <<policy_vars, mutexes, running, shared, calls, channel_released>>

\* A load report sets the weight of the object a holder refers to.
ReportWeight(id) ==
    /\ weight_objects[id].state = "live"
    /\ weight_objects[id].weight_ = 0
    /\ weight_objects' = [weight_objects EXCEPT ![id].weight_ = 1]
    /\ last_call' = [op |-> "MaybeUpdateWeight", id |-> id]
    /\ UNCHANGED <<policy_vars, map_entries, mutexes, running, shared, calls,
                   channel_released>>

NextWeightMap ==
    \/ \E key \in Keys : GetOrCreateWeight(key)
    \/ \E id \in WeightIds : RefWeight(id)
    \/ \E id \in WeightIds : UnrefWeight(id)
    \/ \E id \in WeightIds : DestroyWeight(id)
    \/ \E id \in WeightIds : ReportWeight(id)

SpecWeightMap == Init /\ [][NextWeightMap]_vars

(***************************************************************************)
(* The mutexes of one picker of two endpoints, of their EndpointWeights    *)
(* and of the weight map.  Each function that locks is the sequence of its *)
(* statements that lock, unlock, or touch what a mutex guards; a thread    *)
(* runs one statement per step and waits at a lock that another thread     *)
(* holds.  The scheduler is a shared_ptr: an object with a use count.      *)
(***************************************************************************)
Lock(m) == [do |-> "lock", m |-> m, k |-> 0]
Unlock(m) == [do |-> "unlock", m |-> m, k |-> 0]
Do(what, k) == [do |-> what, m |-> <<"none", 0>>, k |-> k]

\* Picker::PickIndex, lines 598-607, and the end of the local `scheduler`.
PickIndexCode ==
    <<Lock(scheduler_mu_), Do("copy", 0), Unlock(scheduler_mu_),
      Do("pick", 0), Do("drop", 0)>>

\* EndpointWeight::GetWeight, lines 475-499, on the weight of key k.
GetWeightCode(k) == <<Lock(mu_(k)), Do("read", k), Unlock(mu_(k))>>

\* A rebuild that schedules its timer twice.
BuildCode_SchedulesTwice ==
    GetWeightCode(1) \o GetWeightCode(2)
        \o <<Do("make", 0), Lock(scheduler_mu_), Do("swap", 0),
             Unlock(scheduler_mu_), Do("RunAfter", 0), Do("store", 0),
             Do("RunAfter", 0), Do("store", 0)>>

\* BuildSchedulerAndStartTimerLocked, lines 618-667, its caller holding
\* timer_mu_.
BuildCode ==
    GetWeightCode(1) \o GetWeightCode(2)
        \o <<Do("make", 0), Lock(scheduler_mu_), Do("swap", 0),
             Unlock(scheduler_mu_), Do("RunAfter", 0), Do("store", 0)>>

\* A constructor that does not take timer_mu_.
PickerCode_Unlocked == BuildCode \o <<Do("return", 0)>>

\* The Picker constructor from line 557 on, and its return, after which the
\* picker goes to the channel.
PickerCode ==
    <<Lock(timer_mu_)>> \o BuildCode \o <<Unlock(timer_mu_), Do("return", 0)>>

\* A timer callback that rebuilds without a look at the handle.
TimerCode_Unchecked ==
    <<Lock(timer_mu_)>> \o BuildCode \o <<Unlock(timer_mu_)>>

\* The timer callback, lines 669-680: it skips the rebuild if the handle
\* was reset.
TimerCode ==
    <<Lock(timer_mu_), Do("check", 0)>> \o BuildCode \o <<Unlock(timer_mu_)>>

\* Picker::Orphaned, lines 566-573.
OrphanedCode == <<Lock(timer_mu_), Do("cancel", 0), Unlock(timer_mu_)>>

\* MaybeUpdateWeight taking timer_mu_ inside mu_.
MaybeUpdateWeightCode_LocksTimer(k) ==
    <<Lock(mu_(k)), Lock(timer_mu_), Do("write", k), Unlock(timer_mu_),
      Unlock(mu_(k))>>

\* EndpointWeight::MaybeUpdateWeight, lines 458-469, with a non-zero weight.
MaybeUpdateWeightCode(k) == <<Lock(mu_(k)), Do("write", k), Unlock(mu_(k))>>

\* EndpointWeight::ResetNonEmptySince, lines 502-505.
ResetNonEmptySinceCode(k) == <<Lock(mu_(k)), Do("reset", k), Unlock(mu_(k))>>

\* WeightedRoundRobin::GetOrCreateWeight, lines 801-810.
GetOrCreateWeightCode ==
    <<Lock(endpoint_weight_map_mu_), Do("find", 0),
      Unlock(endpoint_weight_map_mu_)>>

\* EndpointWeight::~EndpointWeight, lines 429-433.
DestructorCode ==
    <<Lock(endpoint_weight_map_mu_), Do("erase", 0),
      Unlock(endpoint_weight_map_mu_)>>

\* The functions a thread may enter, with their statements.
Functions ==
    {[op |-> "Picker", code |-> PickerCode],
     [op |-> "PickIndex", code |-> PickIndexCode],
     [op |-> "Timer", code |-> TimerCode],
     [op |-> "Orphaned", code |-> OrphanedCode],
     [op |-> "GetOrCreateWeight", code |-> GetOrCreateWeightCode],
     [op |-> "~EndpointWeight", code |-> DestructorCode]}
        \cup {[op |-> "MaybeUpdateWeight", code |-> MaybeUpdateWeightCode(k)] :
                  k \in LockKeys}
        \cup {[op |-> "ResetNonEmptySince", code |-> ResetNonEmptySinceCode(k)] :
                  k \in LockKeys}

\* The weights the backend of key k comes to have in SpecLocks: the first
\* backend changes its weight, the others keep theirs.
LockWeights(k) == IF k = 1 THEN {1, 2} ELSE {1}

\* The names of the functions thread t runs: the threads of the channel
\* construct the picker, pick and let go of it; the threads of the event
\* engine run the timer callback, one of them may also be the one that
\* drops the last reference to the picker, the other one also delivers
\* load reports and creates and destroys weights.
FunctionsOf(t) ==
    CASE t % 3 = 1 -> {"Picker", "PickIndex", "Orphaned"}
      [] t % 3 = 2 -> {"Timer", "Orphaned"}
      [] OTHER -> {"Timer", "MaybeUpdateWeight", "ResetNonEmptySince",
                   "GetOrCreateWeight", "~EndpointWeight"}

\* The threads inside function op.
Inside(op) == {t \in LockThreads : running[t].op = op}

\* An entry that lets the channel orphan the picker during a pick.
Enter_OrphanedDuringPick(t, f) ==
    /\ running[t] = NotRunning
    /\ f.op \in FunctionsOf(t)
    /\ f.op = "Picker" => ~shared.constructed /\ Inside("Picker") = {}
    /\ f.op = "PickIndex" => shared.constructed /\ ~shared.orphaned
    /\ f.op = "Orphaned" => shared.constructed /\ ~shared.orphaned
    /\ f.op = "Timer" => shared.pending > 0
    /\ running' = [running EXCEPT ![t] =
                       [op |-> f.op, code |-> f.code, pc |-> 1, held |-> <<>>,
                        weights |-> <<>>, scheduler |-> 0, seen |-> <<>>]]
    /\ shared' = CASE f.op = "Orphaned" -> [shared EXCEPT !.orphaned = TRUE]
                   [] f.op = "Timer" -> [shared EXCEPT !.pending = @ - 1]
                   [] OTHER -> shared
    /\ UNCHANGED <<policy_vars, last_call, weight_objects, map_entries, mutexes,
                   calls, channel_released>>

\* Thread t enters function f.  The picker is constructed once and then
\* given to the channel; it is orphaned once, when the channel and every
\* pick have let go of it, and is not picked from afterwards.  The event
\* engine runs the callback of a timer that RunAfter scheduled and Cancel
\* did not reach, once.
Enter(t, f) ==
    /\ running[t] = NotRunning
    /\ f.op \in FunctionsOf(t)
    /\ f.op = "Picker" => ~shared.constructed /\ Inside("Picker") = {}
    /\ f.op = "PickIndex" => shared.constructed /\ ~shared.orphaned
    /\ f.op = "Orphaned" =>
           shared.constructed /\ ~shared.orphaned /\ Inside("PickIndex") = {}
    /\ f.op = "Timer" => shared.pending > 0
    /\ running' = [running EXCEPT ![t] =
                       [op |-> f.op, code |-> f.code, pc |-> 1, held |-> <<>>,
                        weights |-> <<>>, scheduler |-> 0, seen |-> <<>>]]
    /\ shared' = CASE f.op = "Orphaned" -> [shared EXCEPT !.orphaned = TRUE]
                   [] f.op = "Timer" -> [shared EXCEPT !.pending = @ - 1]
                   [] OTHER -> shared
    /\ UNCHANGED <<policy_vars, last_call, weight_objects, map_entries, mutexes,
                   calls, channel_released>>

\* The statement thread t is at.
Statement(t) == running[t].code[running[t].pc]

\* The sequence q without its elements equal to x.
Without(q, x) == SelectSeq(q, LAMBDA y : y # x)

\* The address of the next std::make_shared<StaticStrideScheduler>.
FreeSchedulerId ==
    CHOOSE id \in SchedulerIds :
        /\ shared.schedulers[id].refs = 0
        /\ \A x \in SchedulerIds : shared.schedulers[x].refs = 0 => id <= x

\* A copy of a shared_ptr that does not count.
CopySharedPtr_Uncounted(schedulers, id) == schedulers

\* The copy of the shared_ptr to the scheduler at address id (0: null):
\* the use count goes up.
CopySharedPtr(schedulers, id) ==
    IF id = 0 THEN schedulers
    ELSE [schedulers EXCEPT ![id].refs = @ + 1]

\* The end of a shared_ptr to the scheduler at address id: the use count
\* goes down and at zero the scheduler is destroyed.
ResetSharedPtr(schedulers, id) ==
    IF id = 0 THEN schedulers
    ELSE IF schedulers[id].refs = 1
    THEN [schedulers EXCEPT ![id] = NoSchedulerObject]
    ELSE [schedulers EXCEPT ![id].refs = @ - 1]

\* The thread and the shared data after thread t ran statement ins, other
\* than lock and unlock.
Effect(t, ins) ==
    LET r == running[t]
    IN  CASE ins.do = "copy" ->
                 [thread |-> [r EXCEPT !.scheduler = shared.scheduler_,
                                       !.seen = IF shared.scheduler_ = 0 THEN <<>>
                                                ELSE shared.schedulers[
                                                         shared.scheduler_].weights],
                  shared |-> [shared EXCEPT !.schedulers =
                                 CopySharedPtr(@, shared.scheduler_)]]
          [] ins.do = "drop" ->
                 [thread |-> [r EXCEPT !.scheduler = 0, !.seen = <<>>],
                  shared |-> [shared EXCEPT !.schedulers =
                                 ResetSharedPtr(@, r.scheduler)]]
          [] ins.do = "check" ->
                 [thread |-> IF shared.timer_handle_ THEN r
                             ELSE [r EXCEPT !.pc = Len(r.code) - 1],
                  shared |-> shared]
          [] ins.do = "read" ->
                 [thread |-> [r EXCEPT !.weights = Append(@, shared.weight_[ins.k])],
                  shared |-> shared]
          [] ins.do = "make" ->
                 IF NumPositive(r.weights) < 2
                 THEN [thread |-> [r EXCEPT !.scheduler = 0], shared |-> shared]
                 ELSE [thread |-> [r EXCEPT !.scheduler = FreeSchedulerId],
                       shared |-> [shared EXCEPT !.schedulers[FreeSchedulerId] =
                                      [refs |-> 1, weights |-> r.weights]]]
          [] ins.do = "swap" ->
                 [thread |-> [r EXCEPT !.scheduler = 0],
                  shared |-> [shared EXCEPT
                                 !.scheduler_ = r.scheduler,
                                 !.schedulers = ResetSharedPtr(@, shared.scheduler_)]]
          [] ins.do = "RunAfter" ->
                 [thread |-> r, shared |-> [shared EXCEPT !.pending = @ + 1]]
          [] ins.do = "store" ->
                 [thread |-> r, shared |-> [shared EXCEPT !.timer_handle_ = TRUE]]
          [] ins.do = "cancel" ->
                 [thread |-> r,
                  shared |-> [shared EXCEPT
                                 !.timer_handle_ = FALSE,
                                 !.wrr_ = FALSE,
                                 !.pending = IF @ > 0 THEN @ - 1 ELSE @]]
          [] ins.do = "return" ->
                 [thread |-> r, shared |-> [shared EXCEPT !.constructed = TRUE]]
          [] ins.do = "reset" ->
                 [thread |-> r, shared |-> [shared EXCEPT !.weight_[ins.k] = 0]]
          [] OTHER -> [thread |-> r, shared |-> shared]

\* The thread after the statement at pc: at the next one, or back outside.
Advance(r) ==
    IF r.pc = Len(r.code) THEN NotRunning ELSE [r EXCEPT !.pc = @ + 1]

\* Thread t runs the statement it is at; a lock waits for its mutex.
Step(t) ==
    /\ running[t] # NotRunning
    /\ LET ins == Statement(t)
           r == running[t]
       IN  CASE ins.do = "lock" ->
                 /\ mutexes[ins.m] = 0
                 /\ mutexes' = [mutexes EXCEPT ![ins.m] = t]
                 /\ running' = [running EXCEPT ![t] =
                                    Advance([r EXCEPT !.held = Append(@, ins.m)])]
                 /\ UNCHANGED shared
             [] ins.do = "unlock" ->
                 /\ mutexes' = [mutexes EXCEPT ![ins.m] = 0]
                 /\ running' = [running EXCEPT ![t] =
                                    Advance([r EXCEPT !.held = Without(@, ins.m)])]
                 /\ UNCHANGED shared
             [] ins.do = "write" ->
                 /\ \E w \in LockWeights(ins.k) :
                        shared' = [shared EXCEPT !.weight_[ins.k] = w]
                 /\ running' = [running EXCEPT ![t] = Advance(r)]
                 /\ UNCHANGED mutexes
             [] OTHER ->
                 /\ ins.do = "make" =>
                        \E id \in SchedulerIds : shared.schedulers[id].refs = 0
                 /\ ins.do = "RunAfter" => shared.pending < MaxTimers
                 /\ shared' = Effect(t, ins).shared
                 /\ running' = [running EXCEPT ![t] =
                                    Advance(Effect(t, ins).thread)]
                 /\ UNCHANGED mutexes
    /\ UNCHANGED <<policy_vars, last_call, weight_objects, map_entries, calls,
                   channel_released>>

NextLocks ==
    \/ \E t \in LockThreads, f \in Functions : Enter(t, f)
    \/ \E t \in LockThreads : Step(t)

SpecLocks == Init /\ [][NextLocks]_vars

(***************************************************************************)
(* SpecShutdown: the policy serves a list of one endpoint, takes a second  *)
(* list, is shut down, and the channel lets go of the picker it was given  *)
(* while picks and rebuild timers are under way.                           *)
(***************************************************************************)
\* The channel drops its reference to the picker of the policy that was
\* shut down.  Without a pick in flight that was the last strong reference:
\* Picker::Orphaned cancels the timer (lines 566-573) and the picker lets
\* go of its EndpointWeights.
ChannelReleasesPicker ==
    /\ shutdown_
    /\ ~channel_released
    /\ channel_released' = TRUE
    /\ pickers' = ReleasePickers(pickers, 0, threads)
    /\ endpoint_weight_map_' =
           ReleaseWeights(endpoint_weight_map_, endpoint_list_,
                          latest_pending_endpoint_list_, pickers')
    /\ last_call' = [op |-> "ChannelReleasesPicker"]
    /\ UNCHANGED <<now, config_, endpoint_list_, latest_pending_endpoint_list_,
                   shutdown_, scheduler_state_, published, threads, hist, picked,
                   weight_objects, map_entries, mutexes, running, shared, calls>>

\* What the handlers leave alone in SpecShutdown.
ShutdownFrame ==
    UNCHANGED <<hist, picked, weight_objects, map_entries, mutexes, running,
                shared, calls, channel_released>>

NextShutdown ==
    \/ /\ \E a \in WeightAddressLists : UpdateLocked(a, PickConfig)
       /\ ShutdownFrame
    \/ /\ Notify("active", {"READY", "TRANSIENT_FAILURE"}, {0}, {})
       /\ ShutdownFrame
    \/ /\ \E k \in Keys : \E data \in PickMetrics(k) : OobReport(k, data)
       /\ ShutdownFrame
    \/ /\ \E id \in PickerIds : TimerFired(id)
       /\ ShutdownFrame
    \/ /\ \E t \in Threads : PickBegin(t)
       /\ ShutdownFrame
    \/ /\ \E t \in Threads : PickStep(t)
       /\ ShutdownFrame
    \/ /\ ShutdownLocked
       /\ ShutdownFrame
    \/ ChannelReleasesPicker

SpecShutdown == InitPick /\ [][NextShutdown]_vars

(***************************************************************************)
(* SpecLinear: threads call MaybeUpdateWeight and GetWeight on one         *)
(* EndpointWeight while the clock advances.  MaybeUpdateWeight reads the   *)
(* clock (line 456) and then takes mu_ (line 458); the rebuild reads the   *)
(* clock (line 613) and GetWeight then takes mu_ (line 475).  What runs    *)
(* with mu_ held is one step.  `calls` records each call: its weight, the  *)
(* clock at its begin and at its return, and what GetWeight returned.      *)
(***************************************************************************)
\* The calls of one behaviour of SpecLinear.
MaxCalls == 3

\* The clock of SpecLinear stops here.
LinearHorizon == 2

\* The key of the EndpointWeight of SpecLinear: the first one.
LinearKey == CHOOSE k \in Keys : \A x \in Keys : k <= x

LinearConfig ==
    [blackout_period |-> 1, weight_expiration_period |-> 2,
     error_utilization_penalty |-> 1]

InitLinear ==
    /\ InitPolicy
    /\ config_ = LinearConfig
    /\ scheduler_state_ = 0

\* The clock advances, up to LinearHorizon.
LinearTick ==
    /\ now < LinearHorizon
    /\ Tick
    /\ endpoint_weight_map_[LinearKey].live
    /\ UNCHANGED <<hist, picked, lifetime_vars>>

\* What the handler specifications leave alone in SpecLinear.
LinearFrame ==
    UNCHANGED <<config_, endpoint_list_, latest_pending_endpoint_list_,
                shutdown_, scheduler_state_, published, pickers, threads, hist,
                picked, weight_objects, map_entries, mutexes, shared,
                channel_released>>

\* The EndpointWeight is created (GetOrCreateWeight, line 807).
LinearCreate ==
    /\ ~endpoint_weight_map_[LinearKey].live
    /\ endpoint_weight_map_' =
           [endpoint_weight_map_ EXCEPT ![LinearKey] = NewEndpointWeight]
    /\ last_call' = [op |-> "GetOrCreateWeight"]
    /\ UNCHANGED <<now, running, calls>>
    /\ LinearFrame

\* Thread t enters MaybeUpdateWeight with `data` (lines 436-456): a zero
\* weight returns at once, another one reads the clock.
MaybeUpdateWeightBegin(t, data) ==
    LET weight == ComputeWeight(data.qps, data.eps, Utilization(data),
                                config_.error_utilization_penalty)
    IN  /\ endpoint_weight_map_[LinearKey].live
        /\ running[t] = NotRunning
        /\ Len(calls) < MaxCalls
        /\ calls' = Append(calls,
                           [op |-> "MaybeUpdateWeight", weight |-> weight,
                            begin |-> now, end |-> IF weight = 0 THEN now ELSE -1,
                            ret |-> 0])
        /\ running' = [running EXCEPT ![t] =
                           IF weight = 0 THEN NotRunning
                           ELSE [op |-> "MaybeUpdateWeight", data |-> data,
                                 now |-> now, call |-> Len(calls) + 1]]
        /\ last_call' = [op |-> "MaybeUpdateWeight begin", thread |-> t]
        /\ UNCHANGED <<now, endpoint_weight_map_>>
        /\ LinearFrame

\* Thread t takes mu_, stores the weight with the time it read, and returns
\* (lines 458-470).
MaybeUpdateWeightCommit(t) ==
    /\ running[t] # NotRunning
    /\ running[t].op = "MaybeUpdateWeight"
    /\ endpoint_weight_map_' =
           [endpoint_weight_map_ EXCEPT ![LinearKey] =
               MaybeUpdateWeight(@, running[t].data.qps, running[t].data.eps,
                                 Utilization(running[t].data),
                                 config_.error_utilization_penalty,
                                 running[t].now)]
    /\ calls' = [calls EXCEPT ![running[t].call].end = now]
    /\ running' = [running EXCEPT ![t] = NotRunning]
    /\ last_call' = [op |-> "MaybeUpdateWeight", thread |-> t]
    /\ UNCHANGED now
    /\ LinearFrame

\* Thread t, in a rebuild, reads the clock (line 613) and calls GetWeight.
GetWeightBegin(t) ==
    /\ endpoint_weight_map_[LinearKey].live
    /\ running[t] = NotRunning
    /\ Len(calls) < MaxCalls
    /\ calls' = Append(calls, [op |-> "GetWeight", weight |-> 0,
                               begin |-> now, end |-> -1, ret |-> 0])
    /\ running' = [running EXCEPT ![t] =
                       [op |-> "GetWeight", data |-> NoData, now |-> now,
                        call |-> Len(calls) + 1]]
    /\ last_call' = [op |-> "GetWeight begin", thread |-> t]
    /\ UNCHANGED <<now, endpoint_weight_map_>>
    /\ LinearFrame

\* Thread t takes mu_, evaluates the weight and returns (lines 475-499).
GetWeightCommit(t) ==
    /\ running[t] # NotRunning
    /\ running[t].op = "GetWeight"
    /\ LET g == GetWeight(endpoint_weight_map_[LinearKey], running[t].now,
                          config_.weight_expiration_period,
                          config_.blackout_period)
       IN  /\ endpoint_weight_map_' =
                  [endpoint_weight_map_ EXCEPT ![LinearKey] = g.ew]
           /\ calls' = [calls EXCEPT ![running[t].call].end = now,
                                     ![running[t].call].ret = g.result]
    /\ running' = [running EXCEPT ![t] = NotRunning]
    /\ last_call' = [op |-> "GetWeight", thread |-> t]
    /\ UNCHANGED now
    /\ LinearFrame

NextLinear ==
    \/ LinearCreate
    \/ LinearTick
    \/ \E t \in LockThreads, data \in ReportedMetrics :
           MaybeUpdateWeightBegin(t, data)
    \/ \E t \in LockThreads : MaybeUpdateWeightCommit(t)
    \/ \E t \in LockThreads : GetWeightBegin(t)
    \/ \E t \in LockThreads : GetWeightCommit(t)

SpecLinear == InitLinear /\ [][NextLinear]_vars

(***************************************************************************)
(* Claims on the control plane                                             *)
(***************************************************************************)
EndpointsIn(l, states) ==
    {i \in 1..Size(l) : l.endpoints[i].connectivity_state_ \in states}

CountersAgree(l) ==
    l.live =>
        LET total == l.num_ready_ + l.num_connecting_ + l.num_transient_failure_
        IN  /\ l.num_ready_ = Cardinality(EndpointsIn(l, {"READY"}))
            /\ l.num_connecting_ = Cardinality(EndpointsIn(l, {"CONNECTING", "IDLE"}))
            /\ l.num_transient_failure_ =
                   Cardinality(EndpointsIn(l, {"TRANSIENT_FAILURE"}))
            /\ total <= Size(l)
            /\ (total = Size(l)) <=> (EndpointsIn(l, {"NONE"}) = {})

\* C2: in every reachable state, for the current and the pending endpoint
\* list, each counter equals the number of endpoints whose last notified
\* state is in its bucket (IDLE counted as CONNECTING), the three counters
\* sum to at most the size of the list, and to exactly the size if and only
\* if every endpoint has delivered a state notification.
C2_CountersAgree ==
    /\ CountersAgree(endpoint_list_)
    /\ CountersAgree(latest_pending_endpoint_list_)

\* Both lists hold two endpoints; the current list has all its notifications
\* (one READY, one TRANSIENT_FAILURE after earlier states), the pending list
\* has only one, an IDLE.
C2_Witness ==
    /\ endpoint_list_.live /\ latest_pending_endpoint_list_.live
    /\ Size(endpoint_list_) = 2 /\ Size(latest_pending_endpoint_list_) = 2
    /\ endpoint_list_.num_ready_ = 1
    /\ endpoint_list_.num_transient_failure_ = 1
    /\ latest_pending_endpoint_list_.endpoints[1].connectivity_state_ = "NONE"
    /\ latest_pending_endpoint_list_.endpoints[2].connectivity_state_ = "IDLE"

\* C4: whenever a state notification of an endpoint of the pending list is
\* handled, the pending list becomes the current list if and only if, with
\* the notification applied, (a) the current list has no READY endpoint, or
\* (b) the pending list has a READY endpoint and every endpoint of it has
\* delivered a notification, or (c) every endpoint of the pending list is in
\* TRANSIENT_FAILURE; a promoted list leaves no pending list behind.
C4_PromotionRule ==
    [][ (last_call'.op = "OnStateUpdate" /\ last_call'.list = "pending") =>
          LET promoted == ~latest_pending_endpoint_list_'.live
              l == IF promoted THEN endpoint_list_'
                   ELSE latest_pending_endpoint_list_'
          IN  /\ promoted <=>
                    \/ EndpointsIn(endpoint_list_, {"READY"}) = {}
                    \/ /\ EndpointsIn(l, {"READY"}) # {}
                       /\ EndpointsIn(l, {"NONE"}) = {}
                    \/ EndpointsIn(l, {"TRANSIENT_FAILURE"}) = 1..Size(l)
              /\ promoted <=> last_call'.swapped
              /\ ~promoted => endpoint_list_' = endpoint_list_
              /\ [i \in 1..Size(l) |-> l.endpoints[i].key] =
                     [i \in 1..Size(latest_pending_endpoint_list_) |->
                         latest_pending_endpoint_list_.endpoints[i].key]
      ]_vars

\* A pending list of two endpoints was promoted by a notification and one of
\* its endpoints is READY, the other CONNECTING.
C4_Witness ==
    /\ last_call.op = "OnStateUpdate"
    /\ last_call.list = "pending"
    /\ last_call.swapped
    /\ Size(endpoint_list_) = 2
    /\ endpoint_list_.num_ready_ = 1
    /\ endpoint_list_.num_connecting_ = 1

\* The notification handled last was aggregated by the current list.
AggregatedByCurrent ==
    /\ last_call.op = "OnStateUpdate"
    /\ (last_call.list = "active" \/ last_call.swapped)

\* C5: after every notification aggregated by the current list, first match
\* wins: with num_ready > 0 READY was published with a Picker; else with
\* num_connecting > 0 CONNECTING with a queueing picker; else with
\* num_transient_failure equal to the size TRANSIENT_FAILURE with a failing
\* picker; else nothing was published.
C5_FirstMatchWins ==
    AggregatedByCurrent =>
        LET l == endpoint_list_
            u == last_call.update
        IN  IF l.num_ready_ > 0
            THEN /\ Len(u) = 1
                 /\ u[1].state = "READY" /\ u[1].status = OkStatus
                 /\ u[1].picker_kind = "wrr"
                 /\ pickers[u[1].picker].live
                 /\ published = u[1]
            ELSE IF l.num_connecting_ > 0
            THEN /\ u = <<[state |-> "CONNECTING", status |-> OkStatus,
                           picker_kind |-> "queue", picker |-> 0]>>
                 /\ published = u[1]
            ELSE IF l.num_transient_failure_ = Size(l)
            THEN /\ Len(u) = 1
                 /\ u[1].state = "TRANSIENT_FAILURE"
                 /\ u[1].picker_kind = "fail"
                 /\ published = u[1]
            ELSE u = <<>>

\* The current list has a READY and a CONNECTING endpoint and READY was
\* published: the first rule won over the second.
C5_Witness ==
    /\ AggregatedByCurrent
    /\ endpoint_list_.num_ready_ = 1
    /\ endpoint_list_.num_connecting_ = 1
    /\ published.state = "READY"

\* C6 as stated: a notification publishes exactly when the published
\* connectivity state changes or the pending list was swapped in.
C6_PublishOnlyOnChange ==
    [][ last_call'.op = "OnStateUpdate" =>
          (last_call'.update # <<>>) <=>
              (published'.state # published.state \/ last_call'.swapped)
      ]_vars

\* C6 amended: a notification publishes exactly when its list is the current
\* list once the promotion test has run and one of the three aggregation
\* rules matches (some endpoint READY; else some endpoint CONNECTING or
\* IDLE; else every endpoint in TRANSIENT_FAILURE), whether or not the
\* aggregate state changes; what it publishes is what the channel holds.
C6_PublishOnEveryAggregation ==
    last_call.op = "OnStateUpdate" =>
        /\ (last_call.update # <<>>) <=>
              /\ last_call.list = "active" \/ last_call.swapped
              /\ \/ EndpointsIn(endpoint_list_, {"READY"}) # {}
                 \/ EndpointsIn(endpoint_list_, {"CONNECTING", "IDLE"}) # {}
                 \/ EndpointsIn(endpoint_list_, {"TRANSIENT_FAILURE"}) =
                        1..Size(endpoint_list_)
        /\ last_call.update # <<>> => published = last_call.update[1]
        /\ Len(last_call.update) <= 1

\* A notification of the pending list that did not promote it, while the
\* channel holds READY: nothing was published.
C6_Witness ==
    /\ last_call.op = "OnStateUpdate"
    /\ last_call.list = "pending"
    /\ ~last_call.swapped
    /\ last_call.update = <<>>
    /\ latest_pending_endpoint_list_.num_ready_ = 1
    /\ published.state = "READY"

(***************************************************************************)
(* Claims on the endpoint weights                                          *)
(***************************************************************************)
LiveWeights == {k \in Keys : endpoint_weight_map_[k].live}

\* C3 as stated: weight >= 0, and weight > 0 implies
\* non_empty_since <= last_update_time.
C3_NonEmptySinceBeforeUpdate ==
    \A k \in LiveWeights :
        LET w == endpoint_weight_map_[k]
        IN  /\ w.weight_ >= 0
            /\ w.weight_ > 0 => w.non_empty_since_ <= w.last_update_time_

\* C3 amended: in every state reached by calls of MaybeUpdateWeight,
\* GetWeight and ResetNonEmptySince that run one after the other, weight >= 0,
\* and weight > 0 implies that last_update_time is finite and that
\* non_empty_since is +infinity (after ResetNonEmptySince or an expiration)
\* or at most last_update_time.
C3_WeightImpliesUpdateTime ==
    \A k \in LiveWeights :
        LET w == endpoint_weight_map_[k]
        IN  /\ w.weight_ >= 0
            /\ w.weight_ > 0 =>
                  /\ w.last_update_time_ # InfFuture
                  /\ \/ w.non_empty_since_ = InfFuture
                     \/ w.non_empty_since_ <= w.last_update_time_

\* A rebuild found the reported weight of endpoint 1 expired: the weight is
\* kept, non_empty_since is +infinity again.
C3_Witness ==
    /\ last_call.op = "Timer"
    /\ last_call.metrics.stale_keys = {1}
    /\ endpoint_weight_map_[1].weight_ > 0
    /\ endpoint_weight_map_[1].non_empty_since_ = InfFuture
    /\ endpoint_weight_map_[1].last_update_time_ < now

\* The picker whose scheduler the last step built (0: none).
BuiltPicker ==
    IF last_call.op = "Timer" THEN last_call.picker
    ELSE IF last_call.op = "OnStateUpdate" /\ last_call.update # <<>>
            /\ last_call.update[1].state = "READY"
         THEN last_call.update[1].picker
         ELSE 0

\* The list an endpoint notification was delivered to, before and after it.
NotifiedListBefore ==
    IF last_call'.list = "pending" THEN latest_pending_endpoint_list_
    ELSE endpoint_list_

NotifiedListAfter ==
    IF last_call'.list = "pending" /\ ~last_call'.swapped
    THEN latest_pending_endpoint_list_' ELSE endpoint_list_'

ExpirationLaw(expired) ==
    BuiltPicker # 0 =>
        LET p == pickers[BuiltPicker]
            m == last_call.metrics
            positions == {j \in 1..Len(p.endpoints_) : p.endpoints_[j] \in expired}
        IN  /\ \A j \in positions :
                   /\ m.endpoint_weights[j] = 0
                   /\ endpoint_weight_map_[p.endpoints_[j]].non_empty_since_ =
                          InfFuture
            /\ m.endpoint_weight_stale = Cardinality(positions)
            /\ m.endpoint_weight_not_yet_usable <=
                   Len(p.endpoints_) - Cardinality(positions)

\* No non-zero report reached the weight of k for weight_expiration_period:
\* neither since its last one nor, if it never had one, since it exists.
Silent(k) ==
    LET w == endpoint_weight_map_[k]
        since == IF w.last_update_time_ # InfFuture THEN w.last_update_time_
                 ELSE hist[k].created
    IN  now - since >= config_.weight_expiration_period

\* The latest non-zero report of k is weight_expiration_period old.
LastReportExpired(k) ==
    LET w == endpoint_weight_map_[k]
    IN  /\ w.last_update_time_ # InfFuture
        /\ now - w.last_update_time_ >= config_.weight_expiration_period

\* C9 as stated: an endpoint without a non-zero report for at least
\* weight_expiration_period gets 0 from GetWeight, is counted stale and not
\* not-yet-usable, and its non_empty_since is +infinity.
C9_SilentIsStale == ExpirationLaw({k \in LiveWeights : Silent(k)})

\* C9 amended: if the most recent non-zero report of an endpoint is at
\* least weight_expiration_period before now, GetWeight(now) returns 0,
\* increments the stale count by one and not the not-yet-usable count, and
\* sets non_empty_since to +infinity, also when the blackout test would
\* apply; an endpoint that never had a non-zero report is not counted stale.
C9_ExpiredReportIsStale ==
    ExpirationLaw({k \in LiveWeights : LastReportExpired(k)})

\* Endpoint 1 is notified READY again (non_empty_since reset, so the
\* blackout test would apply) while its last report has expired: the picker
\* built by the notification counts it stale.
C9_Witness ==
    /\ last_call.op = "OnStateUpdate"
    /\ last_call.reset_key = 1
    /\ BuiltPicker # 0
    /\ last_call.metrics.endpoint_weight_stale = 1
    /\ last_call.metrics.endpoint_weight_not_yet_usable = 0
    /\ endpoint_weight_map_[1].weight_ > 0
    /\ LastReportExpired(1)

\* What C10 asserts of the GetWeight calls of the last rebuild, the first
\* report of the recovery of an endpoint being recovery_report of its
\* history.
BlackoutAfterRecovery(recovery_report) ==
    BuiltPicker # 0 =>
        LET p == pickers[BuiltPicker]
        IN  \A j \in 1..Len(p.endpoints_) :
                LET t0 == recovery_report[p.endpoints_[j]]
                IN  ( /\ p.config_.blackout_period > 0
                      /\ t0 \in Times
                      /\ now - t0 < p.config_.blackout_period )
                    => last_call.metrics.endpoint_weights[j] = 0

C1_PickIndexInRange ==
    [][ last_call'.op = "Pick" =>
          /\ pickers[last_call'.picker].live
          /\ last_call'.index \in
                 0..(Len(pickers[last_call'.picker].endpoints_) - 1)
      ]_vars

\* A pick returned index 1 by the round-robin fallback although its picker
\* holds a scheduler by now: a rebuild ran between the copy of the scheduler
\* reference and the pick.
C1_Witness ==
    /\ last_call.op = "Pick"
    /\ last_call.index = 1
    /\ ~last_call.wrr
    /\ pickers[last_call.picker].live
    /\ pickers[last_call.picker].scheduler_ # NoScheduler

\* The keys of the READY endpoints of the current list, in list order.
ReadyEndpointKeys ==
    LET ready == SelectSeq(endpoint_list_.endpoints,
                           LAMBDA e : e.connectivity_state_ = "READY")
    IN  [j \in 1..Len(ready) |-> ready[j].key]

\* C7: a Picker published with READY holds exactly the endpoints of the
\* current list that are READY when it is constructed, in list order; and
\* no step changes the endpoint vector of a picker that exists before and
\* after it (a slot whose picker the step has just constructed excepted).
C7_PickerSnapshot ==
    /\ [] ( ( /\ last_call.op = "OnStateUpdate"
              /\ last_call.update # <<>>
              /\ last_call.update[1].state = "READY" )
            => /\ pickers[last_call.update[1].picker].live
               /\ pickers[last_call.update[1].picker].endpoints_ =
                      ReadyEndpointKeys )
    /\ [][ \A id \in PickerIds :
               ( /\ pickers[id].live
                 /\ pickers'[id].live
                 /\ ~ ( /\ last_call'.op = "OnStateUpdate"
                        /\ last_call'.update # <<>>
                        /\ last_call'.update[1].picker = id ) )
               => pickers'[id].endpoints_ = pickers[id].endpoints_
         ]_vars

\* A picker over both endpoints is still held by a pick and has been
\* rebuilt by its timer after endpoint 1 left READY and a picker over
\* endpoint 2 alone was published.
C7_Witness ==
    /\ last_call.op = "Timer"
    /\ pickers[last_call.picker].endpoints_ = <<1, 2>>
    /\ published.state = "READY"
    /\ published.picker # last_call.picker
    /\ pickers[published.picker].endpoints_ = <<2>>
    /\ endpoint_list_.endpoints[1].connectivity_state_ = "TRANSIENT_FAILURE"

(***************************************************************************)
(* Claims on the round-robin fallback                                      *)
(***************************************************************************)
\* The set of the elements of sequence q.
Range(q) == {q[i] : i \in 1..Len(q)}

\* A step is a pick of the round-robin fallback.
FallbackPicked == last_call'.op = "Pick" /\ ~last_call'.wrr

\* The pick of this step returned the value of last_picked_index_ modulo the
\* number of endpoints and left the counter one further.
ConsecutiveCounter ==
    LET id == last_call'.picker
        n == Len(pickers[id].endpoints_)
        fetched == pickers[id].last_picked_index_
    IN  /\ last_call'.index = fetched % n
        /\ pickers'[id].live =>
               pickers'[id].last_picked_index_ = (fetched + 1) % CounterModulus

\* The pick of this step and the n - 1 picks of the same picker before it
\* selected each of the n endpoints once.
WindowSelectsEach ==
    LET id == last_call'.picker
        n == Len(pickers[id].endpoints_)
        window == LastOf(Append(picked.rr[id], last_call'.index), n)
    IN  Range(window) = 0..(n - 1)

\* C11 (as stated): a pick of a picker without scheduler returns the value
\* of the shared counter modulo n, the counter advancing by one with each
\* pick, and every window of n consecutive such picks of a picker selects
\* each of its n endpoints exactly once (n = 2: the picks alternate).
C11_EveryWindow ==
    [][ FallbackPicked =>
          LET id == last_call'.picker
              n == Len(pickers[id].endpoints_)
          IN  /\ ConsecutiveCounter
              /\ Len(picked.rr[id]) >= n - 1 => WindowSelectsEach
      ]_vars

\* C11 (amended): a pick of a picker without scheduler returns the value of
\* the shared counter modulo n, the counter advancing by one with each pick
\* and wrapping at its width; a window of n consecutive such picks selects
\* each of the n endpoints exactly once if the counter did not wrap inside
\* the window or n divides the range of the counter (so that with one or
\* two endpoints every window does, and two endpoints always alternate).
C11_WindowWithoutWrap ==
    [][ FallbackPicked =>
          LET id == last_call'.picker
              n == Len(pickers[id].endpoints_)
              fetched == pickers[id].last_picked_index_
          IN  /\ ConsecutiveCounter
              /\ (/\ Len(picked.rr[id]) >= n - 1
                  /\ fetched >= n - 1 \/ CounterModulus % n = 0)
                     => WindowSelectsEach
      ]_vars

\* A picker of three endpoints has returned the indexes 1, 2, 0 in this
\* order, the counter having passed from 1 to 3; the picker is still the
\* channel's.
C11_Witness ==
    /\ last_call.op = "Pick" /\ ~last_call.wrr
    /\ pickers[last_call.picker].live
    /\ Len(pickers[last_call.picker].endpoints_) = 3
    /\ picked.rr[last_call.picker] = <<1, 2, 0>>
    /\ pickers[last_call.picker].last_picked_index_ = 0

(***************************************************************************)
(* Claims on the rebuilds                                                  *)
(***************************************************************************)
\* A step ran BuildSchedulerAndStartTimerLocked: in the constructor of a
\* published picker or in a timer callback.
Rebuilt ==
    \/ last_call'.op = "Timer"
    \/ last_call'.op = "OnStateUpdate" /\ last_call'.metrics # NoMetrics

\* The picker the step rebuilt, as the step left it.
RebuiltPicker ==
    IF last_call'.op = "Timer" THEN pickers'[last_call'.picker]
    ELSE pickers'[last_call'.update[1].picker]

C13_Proportional ==
    PickCount = PickWindow =>
        \A i \in 0..2 :
            /\ 6 * picked.count[i] >= (i + 1) * PickWindow - 6 * 30
            /\ 6 * picked.count[i] <= (i + 1) * PickWindow + 6 * 30

\* The last of the PickWindow picks has returned; the scheduler of the
\* picker holds three different credits and every endpoint was selected.
C13_Witness ==
    /\ PickCount = PickWindow
    /\ last_call.op = "Pick" /\ last_call.wrr
    /\ pickers[1].scheduler_.present
    /\ pickers[1].scheduler_.weights[1] < pickers[1].scheduler_.weights[2]
    /\ pickers[1].scheduler_.weights[2] < pickers[1].scheduler_.weights[3]
    /\ \A i \in 0..2 : picked.count[i] > 0

(***************************************************************************)
(* Claims on resolver updates                                              *)
(***************************************************************************)
\* A step is an UpdateLocked call that built an endpoint list: it did not
\* return at line 757.
BuiltList ==
    /\ last_call'.op = "UpdateLocked"
    /\ last_call'.addresses.ok \/ ~endpoint_list_.live

\* The keys of the endpoints of the list the step built.
BuiltKeys ==
    IF last_call'.addresses.ok THEN OrderedAddresses(last_call'.addresses.list)
    ELSE <<>>

\* C14: whenever UpdateLocked builds an empty endpoint list, that list is
\* the active list when the call returns and there is no pending list,
\* TRANSIENT_FAILURE was published with a failing picker whose status is
\* "empty address list" if the addresses were valid and the resolver's
\* status otherwise, and the call returned that status, which is not OK.
C14_EmptyListPromoted ==
    [][ (BuiltList /\ BuiltKeys = <<>>) =>
          LET status == IF last_call'.addresses.ok THEN <<"UNAVAILABLE", "empty address list">>
                        ELSE last_call'.addresses.status
              call == [state |-> "TRANSIENT_FAILURE", status |-> status,
                       picker_kind |-> "fail", picker |-> 0]
          IN  /\ endpoint_list_'.live
              /\ Size(endpoint_list_') = 0
              /\ ~latest_pending_endpoint_list_'.live
              /\ last_call'.update = <<call>>
              /\ published' = call
              /\ last_call'.ret = status
              /\ status # OkStatus
      ]_vars

\* An update with a valid but empty address list has returned: the active
\* list is empty and the channel holds the picker failing with "empty
\* address list".
C14_Witness ==
    /\ last_call.op = "UpdateLocked"
    /\ last_call.addresses = [ok |-> TRUE, list |-> <<>>]
    /\ last_call.ret = <<"UNAVAILABLE", "empty address list">>
    /\ endpoint_list_.live /\ Size(endpoint_list_) = 0
    /\ ~latest_pending_endpoint_list_.live
    /\ published.state = "TRANSIENT_FAILURE"
    /\ published.picker_kind = "fail"
    /\ published.status = <<"UNAVAILABLE", "empty address list">>

\* C15: an UpdateLocked call that carries a resolver error while an active
\* list exists leaves the active and the pending list as they were,
\* publishes nothing (the channel keeps its picker) and returns the
\* resolver's status; with no active list it makes an empty list the active
\* list, leaves no pending list and publishes TRANSIENT_FAILURE with the
\* resolver's status.
C15_ResolverError ==
    [][ (last_call'.op = "UpdateLocked" /\ ~last_call'.addresses.ok) =>
          /\ last_call'.ret = last_call'.addresses.status
          /\ IF endpoint_list_.live
             THEN /\ endpoint_list_' = endpoint_list_
                  /\ latest_pending_endpoint_list_' = latest_pending_endpoint_list_
                  /\ last_call'.update = <<>>
                  /\ published' = published
                  /\ pickers' = pickers
             ELSE /\ endpoint_list_'.live
                  /\ Size(endpoint_list_') = 0
                  /\ ~latest_pending_endpoint_list_'.live
                  /\ Len(last_call'.update) = 1
                  /\ last_call'.update[1].state = "TRANSIENT_FAILURE"
                  /\ last_call'.update[1].status = last_call'.addresses.status
                  /\ published' = last_call'.update[1]
      ]_vars

\* An update with the resolver error E1 has returned E1 while the policy
\* is READY on an active list with a READY endpoint and holds a pending
\* list.
C15_Witness ==
    /\ last_call.op = "UpdateLocked"
    /\ last_call.addresses = [ok |-> FALSE, status |-> "E1"]
    /\ last_call.ret = "E1"
    /\ last_call.update = <<>>
    /\ endpoint_list_.live /\ endpoint_list_.num_ready_ > 0
    /\ latest_pending_endpoint_list_.live
    /\ published.state = "READY"

\* TRUE iff l is a list of endpoints with the given keys, in this order,
\* none of which has delivered a notification.
FreshListOf(l, keys) ==
    /\ l.live
    /\ Size(l) = Len(keys)
    /\ \A i \in 1..Len(keys) :
           /\ l.endpoints[i].key = keys[i]
           /\ l.endpoints[i].connectivity_state_ = "NONE"
    /\ l.num_ready_ = 0 /\ l.num_connecting_ = 0
    /\ l.num_transient_failure_ = 0

\* C16: an UpdateLocked call that builds a non-empty endpoint list makes it
\* the active list (and leaves no pending list) if and only if there was no
\* active list; otherwise the active list stays as it was and the new list
\* is the pending list, whatever pending list there was before; nothing is
\* published.
C16_NewListActiveOrPending ==
    [][ (BuiltList /\ BuiltKeys # <<>>) =>
          /\ IF ~endpoint_list_.live
             THEN /\ FreshListOf(endpoint_list_', BuiltKeys)
                  /\ ~latest_pending_endpoint_list_'.live
             ELSE /\ endpoint_list_' = endpoint_list_
                  /\ FreshListOf(latest_pending_endpoint_list_', BuiltKeys)
          /\ last_call'.update = <<>>
          /\ published' = published
      ]_vars

\* An update with the addresses 2, 1 has returned while the active list
\* holds a single endpoint, READY: the new list, sorted, is the pending
\* list.
C16_Witness ==
    /\ last_call.op = "UpdateLocked"
    /\ last_call.addresses = [ok |-> TRUE, list |-> <<2, 1>>]
    /\ endpoint_list_.live /\ Size(endpoint_list_) = 1
    /\ endpoint_list_.num_ready_ = 1
    /\ FreshListOf(latest_pending_endpoint_list_, <<1, 2>>)

(***************************************************************************)
(* Claims on the weight map                                                *)
(***************************************************************************)
\* The addresses of the EndpointWeight objects of `key` in `objects` whose
\* strong count is not zero.
LiveWeightsOf(objects, key) ==
    {id \in WeightIds : /\ objects[id].state = "live"
                        /\ objects[id].key_ = key}

\* C17: under every interleaving of GetOrCreateWeight calls, reference
\* copies and releases and destructors, at most one EndpointWeight per key
\* has a strong count above zero, and a GetOrCreateWeight call for a key
\* that has such an object returns that object, with its weight.
C17_OneLiveWeightPerKey ==
    [][ /\ \A key \in Keys :
               Cardinality(LiveWeightsOf(weight_objects', key)) <= 1
        /\ (/\ last_call'.op = "GetOrCreateWeight"
            /\ LiveWeightsOf(weight_objects, last_call'.key) # {})
               => /\ last_call'.ret \in LiveWeightsOf(weight_objects, last_call'.key)
                  /\ weight_objects'[last_call'.ret].weight_ =
                         weight_objects[last_call'.ret].weight_
      ]_vars

\* C18: the map holds no pointer to memory without EndpointWeight, and an
\* entry points to an object of its key; a destructor changes no entry but
\* one that pointed to its object, and leaves none that does; an object
\* that GetOrCreateWeight returns was newly allocated or had a strong count
\* above zero; and when no EndpointWeight exists (each was released and
\* its destructor has returned) the map is empty.
C18_NoEntryForDestroyed ==
    [][ /\ \A key \in Keys :
               map_entries'[key] # 0 =>
                   /\ weight_objects'[map_entries'[key]].state # "free"
                   /\ weight_objects'[map_entries'[key]].key_ = key
        /\ last_call'.op = "~EndpointWeight" =>
               /\ \A key \in Keys :
                      map_entries'[key] # map_entries[key] =>
                          map_entries[key] = last_call'.id
               /\ \A key \in Keys : map_entries'[key] # last_call'.id
        /\ last_call'.op = "GetOrCreateWeight" =>
               IF last_call'.created
               THEN weight_objects[last_call'.ret].state = "free"
               ELSE /\ weight_objects[last_call'.ret].state = "live"
                    /\ weight_objects[last_call'.ret].refs > 0
        /\ (\A id \in WeightIds : weight_objects'[id].state = "free") =>
               \A key \in Keys : map_entries'[key] = 0
      ]_vars

\* A destructor has returned and left the entry of its key in place, since
\* it points to another EndpointWeight, one that is in use.
C18_Witness ==
    /\ last_call.op = "~EndpointWeight"
    /\ weight_objects[last_call.id].state = "free"
    /\ map_entries[last_call.key] # 0
    /\ map_entries[last_call.key] # last_call.id
    /\ weight_objects[map_entries[last_call.key]].state = "live"


(***************************************************************************)
(* Claims on the mutexes (SpecLocks).                                      *)
(***************************************************************************)
\* The threads inside a function.
Runners == {t \in LockThreads : running[t] # NotRunning}

\* The thread that holds the mutex thread t waits for, 0 if t does not wait.
WaitsFor(t) ==
    IF t \in Runners /\ Statement(t).do = "lock"
    THEN mutexes[Statement(t).m]
    ELSE 0

\* Following at most n waits from thread x leads to thread target.
RECURSIVE Reaches(_, _, _)
Reaches(x, target, n) ==
    IF x = 0 \/ n = 0 THEN FALSE
    ELSE IF x = target THEN TRUE
    ELSE Reaches(WaitsFor(x), target, n - 1)

\* No thread waits, directly or through others, for a mutex it holds.
NoLockCycle ==
    \A t \in LockThreads : ~Reaches(WaitsFor(t), t, NumLockThreads)

\* The mutexes of the EndpointWeights.
WeightMutexes == {mu_(k) : k \in LockKeys}

\* C19 (as stated): a thread that holds two mutexes holds timer_mu_ and,
\* acquired after it, scheduler_mu_; no thread holds more than two; no
\* cycle of waiting threads is reachable.
C19_OnlyTimerThenScheduler ==
    /\ \A t \in Runners :
           \/ Len(running[t].held) <= 1
           \/ running[t].held = <<timer_mu_, scheduler_mu_>>
    /\ NoLockCycle

\* C19 (amended): a thread that holds two mutexes holds timer_mu_ and,
\* acquired after it, either scheduler_mu_ or the mu_ of one EndpointWeight;
\* nothing is acquired while holding scheduler_mu_, a mu_ or
\* endpoint_weight_map_mu_; no cycle of waiting threads is reachable.
C19_TimerThenSchedulerOrWeight ==
    /\ \A t \in Runners :
           \/ Len(running[t].held) <= 1
           \/ /\ Len(running[t].held) = 2
              /\ running[t].held[1] = timer_mu_
              /\ running[t].held[2] \in {scheduler_mu_} \cup WeightMutexes
    /\ NoLockCycle

\* A rebuild reads a weight under timer_mu_ while another thread waits for
\* the mutex of that weight.
C19_Witness ==
    \E t \in Inside("Timer"), u \in LockThreads :
        /\ running[t].held = <<timer_mu_, mu_(2)>>
        /\ u # t
        /\ WaitsFor(u) = t

\* C20: a thread in PickIndex locks only scheduler_mu_, holds nothing else,
\* and holds it only for the copy of the shared_ptr; whoever holds
\* scheduler_mu_ is at the copy, at the swap or at the unlock, never at a
\* lock; the scheduler a pick copied is alive, with the weights it had at
\* the copy, until the pick lets go of it.
C20_PickNeverWaitsOnRebuild ==
    /\ \A t \in Inside("PickIndex") :
           /\ running[t].held \in {<<>>, <<scheduler_mu_>>}
           /\ Statement(t).do = "lock" => Statement(t).m = scheduler_mu_
           /\ running[t].held # <<>> => Statement(t).do \in {"copy", "unlock"}
           /\ running[t].scheduler # 0 =>
                  /\ shared.schedulers[running[t].scheduler].refs > 0
                  /\ shared.schedulers[running[t].scheduler].weights
                         = running[t].seen
    /\ \A t \in Runners :
           mutexes[scheduler_mu_] = t =>
               /\ Statement(t).do \in {"copy", "swap", "unlock"}
               /\ running[t].op = "Timer" => Statement(t).do # "copy"

\* A pick is about to use a scheduler that a rebuild has meanwhile replaced
\* in the slot, or cleared from it.
C20_Witness ==
    \E t \in Inside("PickIndex") :
        /\ Statement(t).do = "pick"
        /\ running[t].scheduler # 0
        /\ shared.scheduler_ # running[t].scheduler
        /\ shared.schedulers[running[t].scheduler].refs = 1


(***************************************************************************)
(* Claims on concurrent calls on one EndpointWeight (SpecLinear).          *)
(***************************************************************************)
\* The orders of n calls.
Orders(n) ==
    {p \in [1..n -> 1..n] : \A i, j \in 1..n : p[i] = p[j] => i = j}

\* The times at which the calls of h can take effect: each between its
\* begin and its return.
EffectTimes(h) ==
    {ts \in [1..Len(h) -> 0..LinearHorizon] :
        \A i \in 1..Len(h) : h[i].begin <= ts[i] /\ ts[i] <= h[i].end}

RECURSIVE RunInOrder(_, _, _, _, _)
\* The calls p[k], p[k+1], ... of h run one after the other on the record
\* ew, call i at ts[i]: the record they leave, and whether every GetWeight
\* returned what it returned in h.
RunInOrder(h, p, ts, k, ew) ==
    IF k > Len(h) THEN [ew |-> ew, same |-> TRUE]
    ELSE LET c == h[p[k]]
         IN  IF c.op = "GetWeight"
             THEN LET g == GetWeight(ew, ts[p[k]],
                                     config_.weight_expiration_period,
                                     config_.blackout_period)
                      rest == RunInOrder(h, p, ts, k + 1, g.ew)
                  IN  [ew |-> rest.ew, same |-> rest.same /\ g.result = c.ret]
             ELSE IF c.weight = 0
             THEN RunInOrder(h, p, ts, k + 1, ew)
             ELSE RunInOrder(h, p, ts, k + 1,
                             [ew EXCEPT
                                 !.non_empty_since_ =
                                     IF @ = InfFuture THEN ts[p[k]] ELSE @,
                                 !.weight_ = c.weight,
                                 !.last_update_time_ = ts[p[k]]])

\* The order p of the calls of h, taking effect at the times ts, agrees
\* with their real-time order and runs forward in time.
Sequential(h, p, ts) ==
    \A a, b \in 1..Len(h) :
        a < b => /\ ~(h[p[b]].end < h[p[a]].begin)
                 /\ ts[p[a]] <= ts[p[b]]

\* C21: when every call on the EndpointWeight has returned, the record and
\* every value GetWeight returned are those of the calls run one after the
\* other in some order that agrees with their real-time order, each at a
\* time between its begin and its return, later in the order never earlier
\* in time.
C21_Linearizable ==
    (/\ endpoint_weight_map_[LinearKey].live
     /\ \A t \in LockThreads : running[t] = NotRunning)
    => \E p \in Orders(Len(calls)), ts \in EffectTimes(calls) :
           /\ Sequential(calls, p, ts)
           /\ RunInOrder(calls, p, ts, 1, NewEndpointWeight)
                  = [ew |-> endpoint_weight_map_[LinearKey], same |-> TRUE]


(***************************************************************************)
(* Claims on shutdown (SpecShutdown).                                      *)
(***************************************************************************)
\* The pickers whose timer callback would run a rebuild (the guard of
\* TimerFired).
ArmedPickers == {id \in PickerIds : pickers[id].live /\ pickers[id].timer_handle_}

\* No pick is in flight.
NoPickInFlight == \A t \in Threads : threads[t].picker = 0

C23_CountsValidUpdatesOnly ==
    [][last_call'.op = "UpdateLocked" =>
           last_call'.wrr_updates = IF last_call'.addresses.ok THEN 1 ELSE 0]_vars

\* C23 (amended): every UpdateLocked call increases wrr_updates by 1,
\* whether it carries an address list or a resolver error.
C23_CountsEveryUpdate ==
    [][last_call'.op = "UpdateLocked" => last_call'.wrr_updates = 1]_vars

\* An update with a resolver error, which the policy did not accept, was
\* counted.
C23_Witness ==
    /\ last_call.op = "UpdateLocked"
    /\ ~last_call.addresses.ok
    /\ last_call.ret # OkStatus
    /\ endpoint_list_.live
    /\ last_call.wrr_updates = 1


\* The report `data` carries no usable load: no data at all, no queries, or
\* no utilization.
NoLoad(data) ==
    \/ data = NoData
    \/ data.qps <= 0
    \/ Utilization(data) <= 0

\* C24: a report without usable load leaves the EndpointWeight as it was;
\* any other report stores a positive weight and the time as
\* last_update_time, and stores the time as non_empty_since only if that
\* was +infinity.
C24_ZeroWeightReportIsNoop ==
    [][last_call'.op \in {"Finish", "OnBackendMetricReport"} =>
           LET before == endpoint_weight_map_[last_call'.key]
               after == endpoint_weight_map_'[last_call'.key]
           IN  IF NoLoad(last_call'.data)
               THEN after = before
               ELSE /\ after.weight_ > 0
                    /\ after.weight_ = last_call'.weight
                    /\ after.last_update_time_ = now
                    /\ after.non_empty_since_ =
                           IF before.non_empty_since_ = InfFuture THEN now
                           ELSE before.non_empty_since_
                    /\ after.live]_vars

\* A call finished without backend metric data on an endpoint whose weight
\* was reported earlier, and the weight is still there.
C24_Witness ==
    /\ last_call.op = "Finish"
    /\ last_call.data = NoData
    /\ endpoint_weight_map_[last_call.key].weight_ > 0
    /\ endpoint_weight_map_[last_call.key].last_update_time_ < now


(***************************************************************************)
(* Claims on the rebuild timer (SpecLocks).                                *)
(***************************************************************************)
\* Thread t is inside BuildSchedulerAndStartTimerLocked, or about to enter
\* it with the handle checked.
Rebuilding(t) ==
    /\ running[t].op = "Timer"
    /\ Statement(t).do \notin {"lock", "check", "unlock"}
           \/ (Statement(t).do \in {"lock", "unlock"}
                   /\ Statement(t).m # timer_mu_)

\* Picker::Orphaned has run to its end.
OrphanedDone == shared.orphaned /\ Inside("Orphaned") = {}

\* C25: once Orphaned has returned, the handle is reset, the event engine
\* holds no timer of the picker that it will run, and no timer callback is
\* inside the rebuild: a callback that still runs is waiting for timer_mu_,
\* looking at the handle, or leaving.
C25_NoRebuildAfterOrphaned ==
    OrphanedDone =>
        /\ ~shared.timer_handle_
        /\ shared.pending = 0
        /\ \A t \in Inside("Timer") : ~Rebuilding(t)

\* A callback that had fired before Orphaned cancelled the timer took
\* timer_mu_ after Orphaned, found the handle reset and leaves without a
\* rebuild.
C25_Witness ==
    /\ OrphanedDone
    /\ \E t \in Inside("Timer") :
           /\ running[t].pc = Len(running[t].code)
           /\ running[t].weights = <<>>

\* Thread t has yet to call RunAfter.
WillSchedule(t) ==
    /\ running[t].op \in {"Picker", "Timer"}
    /\ \E j \in running[t].pc..Len(running[t].code) :
           running[t].code[j].do = "RunAfter"

\* C26: a timer callback that looks at the handle of a picker that was not
\* orphaned finds it set; and from the constructor on, until the picker is
\* orphaned, a timer is with the event engine or a constructor or callback
\* is on its way to schedule one.
C26_HandleSetWhenCallbackLooks ==
    /\ \A t \in Inside("Timer") :
           (Statement(t).do = "check" /\ ~shared.orphaned)
               => shared.timer_handle_
    /\ (Inside("Picker") # {} \/ shared.constructed) /\ ~shared.orphaned
           => \/ shared.pending > 0
              \/ \E t \in Runners : WillSchedule(t)

\* The constructor has called RunAfter and not yet stored the handle, and
\* the callback of that timer already runs on another thread, where it
\* waits for timer_mu_.
C26_Witness ==
    /\ ~shared.timer_handle_
    /\ \E u \in Inside("Picker") : Statement(u).do = "store"
    /\ \E t \in Inside("Timer") :
           /\ Statement(t) = Lock(timer_mu_)
           /\ mutexes[timer_mu_] \in Inside("Picker")


(***************************************************************************)
(* Claims on notifications (Spec).                                         *)
(***************************************************************************)
\* C27: a state notification from an endpoint of the pending list that does
\* not promote the list brings the counters of the pending list up to date
\* and leaves the active list, the published state and the pickers alone.
C27_OnlyActiveListPublishes ==
    [][(/\ last_call'.op = "OnStateUpdate"
        /\ last_call'.list = "pending"
        /\ ~last_call'.swapped)
       => /\ last_call'.update = <<>>
          /\ published' = published
          /\ pickers' = pickers
          /\ endpoint_list_' = endpoint_list_
          /\ latest_pending_endpoint_list_'.live
          /\ CountersAgree(latest_pending_endpoint_list_')]_vars

\* The active list serves READY; an endpoint of the pending list has just
\* become READY while another one has not reported yet, so the pending list
\* stays pending with its READY counter at one.
C27_Witness ==
    /\ last_call.op = "OnStateUpdate"
    /\ last_call.list = "pending"
    /\ ~last_call.swapped
    /\ published.state = "READY"
    /\ latest_pending_endpoint_list_.live
    /\ latest_pending_endpoint_list_.num_ready_ = 1
    /\ ~AllEndpointsSeenInitialState(latest_pending_endpoint_list_)


(***************************************************************************)
(* Claims on the blackout restart (SpecWeight).                            *)
(***************************************************************************)
\* The endpoint a notification was delivered to: its state before and after
\* the notification and the key of its weight.
NotifiedBefore == NotifiedListBefore.endpoints[last_call'.endpoint]

NotifiedAfter == NotifiedListAfter.endpoints[last_call'.endpoint]

\* The notified endpoint becomes READY after a state that is not READY.
Reconnects ==
    /\ NotifiedAfter.connectivity_state_ = "READY"
    /\ NotifiedBefore.connectivity_state_ \in
           {"IDLE", "CONNECTING", "TRANSIENT_FAILURE"}

\* C28: an endpoint state notification calls ResetNonEmptySince exactly when
\* the new state is READY and the endpoint held a state other than READY
\* before.  Every other notification, the first one of an endpoint of a new
\* list and READY after READY among them, leaves weight and last_update_time
\* of the endpoint's weight as they were, and non_empty_since too unless the
\* picker built by the same notification found the weight expired.
C28_ResetOnlyOnReconnection ==
    [][last_call'.op = "OnStateUpdate" =>
         LET k == NotifiedBefore.key
             before == endpoint_weight_map_[k]
             after == endpoint_weight_map_'[k]
         IN  /\ (last_call'.reset_key = k) <=> Reconnects
             /\ (last_call'.reset_key = 0) <=> ~Reconnects
             /\ Reconnects => after.non_empty_since_ = InfFuture
             /\ ~Reconnects =>
                    /\ after.live
                    /\ after.weight_ = before.weight_
                    /\ after.last_update_time_ = before.last_update_time_
                    /\ \/ after.non_empty_since_ = before.non_empty_since_
                       \/ /\ last_call'.metrics # NoMetrics
                          /\ k \in last_call'.metrics.stale_keys
                          /\ now - before.last_update_time_ >=
                                 config_.weight_expiration_period
                          /\ after.non_empty_since_ = InfFuture
    ]_vars

\* An address update kept endpoint 1, whose weight had a report; the new
\* list was promoted by the first notification of its endpoint, READY, and
\* the weight still has its non_empty_since from before the update.
C28_Witness ==
    /\ last_call.op = "OnStateUpdate"
    /\ last_call.list = "pending"
    /\ last_call.swapped
    /\ last_call.reset_key = 0
    /\ endpoint_list_.endpoints[1].connectivity_state_ = "READY"
    /\ endpoint_weight_map_[1].weight_ > 0
    /\ endpoint_weight_map_[1].non_empty_since_ < now
    /\ endpoint_weight_map_[1].non_empty_since_ < InfFuture


(***************************************************************************)
(* Claims on the rebuild counters.                                         *)
(***************************************************************************)
\* Endpoint j of picker p, just rebuilt, has no usable weight information
\* yet: its weight was not found expired, and it either never had a report
\* that changed it or is within the blackout period.
NotYetUsable(p, j) ==
    LET k == p.endpoints_[j]
        w == endpoint_weight_map_[k]
    IN  /\ k \notin last_call.metrics.stale_keys
        /\ \/ w.last_update_time_ = InfFuture
           \/ /\ p.config_.blackout_period > 0
              /\ TimestampMinus(now, w.non_empty_since_) <
                     p.config_.blackout_period

\* C29: at every scheduler rebuild, whatever blackout_period is configured
\* (0 included), endpoint_weight_not_yet_usable is increased by the number
\* of endpoints of the snapshot that never received a load report or are
\* within the blackout period.
C29_CountsEveryUnusableEndpoint ==
    BuiltPicker # 0 =>
        LET p == pickers[BuiltPicker]
        IN  last_call.metrics.endpoint_weight_not_yet_usable =
                Cardinality({j \in 1..Len(p.endpoints_) : NotYetUsable(p, j)})


\* The positions of picker p whose endpoint is stale: its latest non-zero
\* report is weight_expiration_period old, or a GetWeight call found the
\* weight expired and no non-zero report has come since.
StalePositions(p) ==
    {j \in 1..Len(p.endpoints_) :
        \/ LastReportExpired(p.endpoints_[j])
        \/ hist[p.endpoints_[j]].expiry_report = InfFuture}

\* C30: at every rebuild, an endpoint whose latest non-zero report is at
\* least weight_expiration_period old is given weight 0 in the weights the
\* scheduler is built from and adds exactly 1 to endpoint_weight_stale and nothing to
\* endpoint_weight_not_yet_usable; so it does at every later rebuild, until
\* a non-zero report arrives.
C30_StaleUntilNextReport ==
    BuiltPicker # 0 =>
        LET p == pickers[BuiltPicker]
            m == last_call.metrics
        IN  /\ \A j \in StalePositions(p) :
                   /\ LastReportExpired(p.endpoints_[j])
                   /\ m.endpoint_weights[j] = 0
                   /\ p.endpoints_[j] \in m.stale_keys
            /\ m.endpoint_weight_stale = Cardinality(StalePositions(p))
            /\ m.endpoint_weight_not_yet_usable <=
                   Len(p.endpoints_) - Cardinality(StalePositions(p))

\* The timer rebuilt the picker and found the weight of endpoint 1 expired
\* for the second time at least since its latest report: it is counted as
\* stale again, with weight 0, and not as not yet usable.
C30_Witness ==
    /\ last_call.op = "Timer"
    /\ hist[1].stale_again
    /\ endpoint_weight_map_[1].weight_ > 0
    /\ last_call.metrics.stale_keys = {1}
    /\ last_call.metrics.endpoint_weight_stale = 1
    /\ last_call.metrics.endpoint_weight_not_yet_usable = 0
    /\ last_call.metrics.endpoint_weights = <<0>>


(***************************************************************************)
(* Claims on the aggregated state (Spec).                                  *)
(***************************************************************************)
\* The notification of the last step made its list report TRANSIENT_FAILURE.
ReportsFailure ==
    /\ last_call'.update # <<>>
    /\ last_call'.update[1].state = "TRANSIENT_FAILURE"

\* Two absl::Status values are the same one (OK is a string of the model, a
\* failure a tuple).
SameStatus(a, b) == ToString(a) = ToString(b)

\* C31: when the active list aggregates to TRANSIENT_FAILURE, the status
\* published is made from the status of the notification if that one is not
\* OK, and is otherwise last_failure of the list, which is the status made
\* by the latest such aggregation of the list with a status that was not OK:
\* no other notification changes last_failure, and a new list starts
\* without one.
C31_LastFailurePreserved ==
    /\ [][last_call'.op = "OnStateUpdate" =>
            LET before == NotifiedListBefore.last_failure_
                after == NotifiedListAfter.last_failure_
                status == last_call'.status
            IN  /\ (ReportsFailure /\ status # OkStatus) =>
                       /\ SameStatus(published'.status, AllBackendsFailing(status))
                       /\ SameStatus(after, AllBackendsFailing(status))
                /\ (ReportsFailure /\ status = OkStatus) =>
                       /\ SameStatus(published'.status, before)
                       /\ SameStatus(after, before)
                /\ ~ReportsFailure => SameStatus(after, before)
         ]_vars
    /\ [][last_call'.op = "UpdateLocked" =>
            /\ (endpoint_list_'.live /\ endpoint_list_' # endpoint_list_)
                   => SameStatus(endpoint_list_'.last_failure_, OkStatus)
            /\ ( /\ latest_pending_endpoint_list_'.live
                 /\ latest_pending_endpoint_list_' # latest_pending_endpoint_list_ )
                   => SameStatus(latest_pending_endpoint_list_'.last_failure_,
                                 OkStatus)
         ]_vars

\* The active list had failed with E1; an endpoint was then notified
\* TRANSIENT_FAILURE again with an OK status, and the failure published is
\* still the one made from E1.
C31_Witness ==
    /\ last_call.op = "OnStateUpdate"
    /\ last_call.status = OkStatus
    /\ last_call.update # <<>>
    /\ last_call.update[1].state = "TRANSIENT_FAILURE"
    /\ published.state = "TRANSIENT_FAILURE"
    /\ SameStatus(published.status, AllBackendsFailing("E1"))
    /\ SameStatus(endpoint_list_.last_failure_, AllBackendsFailing("E1"))


\* The addresses of a list, in its order (none for an absent list).
KeysOf(l) == IF l.live THEN [i \in 1..Size(l) |-> l.endpoints[i].key] ELSE <<>>

\* The step put another list in the place of the active one: the active list
\* appears, goes, holds other addresses, or the pending list is gone.
ActiveListReplaced ==
    \/ endpoint_list_'.live # endpoint_list_.live
    \/ KeysOf(endpoint_list_') # KeysOf(endpoint_list_)
    \/ latest_pending_endpoint_list_.live /\ ~latest_pending_endpoint_list_'.live

\* C32: the active list is replaced only by UpdateLocked, by ShutdownLocked
\* or by a notification from an endpoint of the pending list, and by the
\* latter only if the active list had no READY endpoint, or the pending list
\* (the notification applied) has a READY endpoint and no endpoint without a
\* state, or all its endpoints are in TRANSIENT_FAILURE.  A notification
\* from an endpoint of the active list keeps both lists in their places.
C32_ActiveListChangesOnlyByPromotion ==
    [][ /\ ActiveListReplaced =>
              \/ last_call'.op \in {"UpdateLocked", "ShutdownLocked"}
              \/ /\ last_call'.op = "OnStateUpdate"
                 /\ last_call'.list = "pending"
                 /\ KeysOf(endpoint_list_') = KeysOf(latest_pending_endpoint_list_)
                 /\ \/ EndpointsIn(endpoint_list_, {"READY"}) = {}
                    \/ /\ EndpointsIn(endpoint_list_', {"READY"}) # {}
                       /\ EndpointsIn(endpoint_list_', {"NONE"}) = {}
                    \/ EndpointsIn(endpoint_list_', {"TRANSIENT_FAILURE"}) =
                           1..Size(endpoint_list_')
        /\ (last_call'.op = "OnStateUpdate" /\ last_call'.list = "active") =>
              /\ ~ActiveListReplaced
              /\ latest_pending_endpoint_list_' = latest_pending_endpoint_list_
      ]_vars

\* The only READY endpoint of the active list has just left READY while a
\* pending list waits: the pending list is still pending.
C32_Witness ==
    /\ last_call.op = "OnStateUpdate"
    /\ last_call.list = "active"
    /\ endpoint_list_.live
    /\ EndpointsIn(endpoint_list_, {"READY"}) = {}
    /\ published.state # "READY"
    /\ latest_pending_endpoint_list_.live
    /\ EndpointsIn(latest_pending_endpoint_list_, {"READY"}) # {}


(***************************************************************************)
(* Claims on the registration of weights (SpecWeightMap).                  *)
(***************************************************************************)
\* C33: every EndpointWeight that GetOrCreateWeight returned is the entry of
\* its key in the weight map for as long as its strong count is not zero,
\* also when it was created while an earlier object of the key, its count
\* at zero, had not run its destructor yet.
C33_LiveWeightIsRegistered ==
    \A id \in WeightIds :
        (weight_objects[id].state = "live" /\ weight_objects[id].refs > 0)
            => map_entries[weight_objects[id].key_] = id


(***************************************************************************)
(* Claims on the lists and their pickers (Spec).                           *)
(***************************************************************************)
\* C34: every picker has at least one endpoint, so the modulus of the
\* round-robin fallback is never zero; a picker is constructed only when
\* num_ready of the active list is positive, and then the list has an
\* endpoint whose state is READY and the picker holds one endpoint for each
\* of them.
C34_PickerNeverEmpty ==
    /\ \A id \in PickerIds : pickers[id].live => Len(pickers[id].endpoints_) > 0
    /\ (last_call.op = "OnStateUpdate" /\ BuiltPicker # 0) =>
           /\ endpoint_list_.live
           /\ endpoint_list_.num_ready_ > 0
           /\ EndpointsIn(endpoint_list_, {"READY"}) # {}
           /\ Len(pickers[BuiltPicker].endpoints_) =
                  Cardinality(EndpointsIn(endpoint_list_, {"READY"}))

\* A picker was built for a list of two endpoints of which one only is
\* READY: it holds that one endpoint.
C34_Witness ==
    /\ last_call.op = "OnStateUpdate"
    /\ BuiltPicker # 0
    /\ Size(endpoint_list_) = 2
    /\ endpoint_list_.num_ready_ = 1
    /\ Len(pickers[BuiltPicker].endpoints_) = 1


\* C35: whenever there is a pending list there is an active list, and the
\* pending list has at least one endpoint; so the promotion test finds the
\* active list whose num_ready it reads.
C35_PendingImpliesActive ==
    latest_pending_endpoint_list_.live =>
        /\ endpoint_list_.live
        /\ Size(latest_pending_endpoint_list_) > 0

\* A notification from the pending list of two endpoints went through the
\* promotion test, which read num_ready of the active list and declined.
C35_Witness ==
    /\ last_call.op = "OnStateUpdate"
    /\ last_call.list = "pending"
    /\ ~last_call.swapped
    /\ latest_pending_endpoint_list_.live
    /\ Size(latest_pending_endpoint_list_) = 2
    /\ endpoint_list_.live
    /\ endpoint_list_.num_ready_ > 0


(***************************************************************************)
(* Claims on the rebuild timer (SpecLocks).                                *)
(***************************************************************************)
\* Thread t is about to call RunAfter.
AtRunAfter(t) == running[t] # NotRunning /\ Statement(t).do = "RunAfter"

\* C36: the event engine holds at most one timer of the picker that it has
\* neither run nor cancelled.  RunAfter is called only by the constructor
\* and by the timer callback, by one thread at a time, which holds timer_mu_
\* in both, and when it is called no timer is outstanding: the callback's
\* own timer has run, and the rebuild schedules one timer.
C36_OneTimerOutstanding ==
    /\ shared.pending <= 1
    /\ \A t \in LockThreads :
           AtRunAfter(t) =>
               /\ running[t].op \in {"Picker", "Timer"}
               /\ mutexes[timer_mu_] = t
               /\ shared.pending = 0
               /\ \A u \in LockThreads \ {t} : ~AtRunAfter(u)
    /\ \A t \in LockThreads :
           (running[t] # NotRunning /\ running[t].op \in {"Picker", "Timer"})
               => Cardinality({j \in running[t].pc..Len(running[t].code) :
                                  running[t].code[j].do = "RunAfter"}) <= 1

\* The timer callback has rebuilt the scheduler and called RunAfter, and is
\* about to store the handle of the one timer outstanding; the handle it
\* replaces is that of the timer that ran.
C36_Witness ==
    /\ shared.pending = 1
    /\ shared.timer_handle_
    /\ \E t \in Inside("Timer") : Statement(t).do = "store"


(***************************************************************************)
(* Claims on the progress of the rebuilds (SpecRebuildFair).               *)
(***************************************************************************)
\* The scheduler of picker id is the one a rebuild would make now from the
\* weights GetWeight returns.
SchedulerUpToDate(id) ==
    LET p == pickers[id]
        c == CollectWeights(p.endpoints_, endpoint_weight_map_, now, p.config_)
    IN  p.scheduler_ = StaticStrideSchedulerMake(c.weights)

\* The timer callback of picker id was the last thing to run.
JustRebuilt(id) == last_call.op = "Timer" /\ last_call.picker = id

\* C37: with an event engine that runs every timer scheduled, a picker is
\* rebuilt by its timer again and again for as long as it exists, and each
\* rebuild leaves the scheduler made from the weights usable then: a
\* report, the end of a blackout or an expiration shows in the scheduler
\* the picks use.
C37_RebuiltForever ==
    /\ \A id \in PickerIds : []<>(~pickers[id].live \/ JustRebuilt(id))
    /\ [](\A id \in PickerIds :
              (pickers[id].live /\ JustRebuilt(id)) => SchedulerUpToDate(id))

\* Both backends have reported, the blackout is over and the timer has
\* rebuilt the picker: it has a scheduler now, made from the two weights.
C37_Witness ==
    /\ last_call.op = "Timer"
    /\ pickers[last_call.picker].live
    /\ pickers[last_call.picker].scheduler_ # NoScheduler
    /\ last_call.metrics.endpoint_weight_not_yet_usable = 0
    /\ last_call.metrics.endpoint_weight_stale = 0
    /\ SchedulerUpToDate(last_call.picker)

(***************************************************************************)
(* C38: the time stored by concurrent MaybeUpdateWeight calls              *)
(***************************************************************************)

\* A MaybeUpdateWeight call has just stored its weight and its time over a
\* record that held the time of an earlier report.
CommitsOverReport ==
    /\ last_call'.op = "MaybeUpdateWeight"
    /\ endpoint_weight_map_[LinearKey].last_update_time_ # InfFuture

\* C38: under every interleaving of MaybeUpdateWeight calls, the time an
\* update stores in last_update_time_ is at least the time the record held
\* before it.
C38_LastUpdateTimeNeverDecreases ==
    [][CommitsOverReport =>
           endpoint_weight_map_'[LinearKey].last_update_time_
               >= endpoint_weight_map_[LinearKey].last_update_time_]_vars

(***************************************************************************)
(* C39: the policy reference the sequence generator reads                  *)
(***************************************************************************)

\* Thread t is at `scheduler->Pick()` of PickIndex (line 603) with a
\* scheduler: the call runs the sequence generator of lines 636-637, which
\* reads wrr_.
AtSequenceGenerator(t) ==
    /\ running[t] # NotRunning
    /\ running[t].op = "PickIndex"
    /\ Statement(t).do = "pick"
    /\ running[t].scheduler # 0

PromotesOverReady ==
    /\ endpoint_list_.live
    /\ EndpointsIn(endpoint_list_, {"READY"}) # {}
    /\ \/ /\ last_call'.op = "OnStateUpdate"
          /\ last_call'.list = "pending"
          /\ last_call'.swapped
       \/ /\ last_call'.op = "UpdateLocked"
          /\ ActiveListReplaced

\* C40: a list promoted while the active list has a READY endpoint either
\* has a READY endpoint, and READY is published with a picker built from
\* it, or has all its endpoints in TRANSIENT_FAILURE (an empty list has),
\* and TRANSIENT_FAILURE is published; CONNECTING is not published.
C40_PromotionKeepsService ==
    [][PromotesOverReady =>
           /\ last_call'.update = <<published'>>
           /\ published'.state # "CONNECTING"
           /\ \/ /\ EndpointsIn(endpoint_list_', {"READY"}) # {}
                 /\ published'.state = "READY"
                 /\ published'.picker_kind = "wrr"
                 /\ pickers'[published'.picker].live
                 /\ pickers'[published'.picker].endpoints_
                        = ReadyKeys(endpoint_list_'.endpoints)
              \/ /\ EndpointsIn(endpoint_list_', {"TRANSIENT_FAILURE"})
                        = 1..Size(endpoint_list_')
                 /\ published'.state = "TRANSIENT_FAILURE"
                 /\ published'.picker_kind = "fail"]_vars

\* A pending list with a READY endpoint and one still connecting has just
\* taken the place of an active list that had a READY endpoint: READY is
\* published.
C40_Witness ==
    /\ last_call.op = "OnStateUpdate"
    /\ last_call.over_ready
    /\ EndpointsIn(endpoint_list_, {"READY"}) # {}
    /\ EndpointsIn(endpoint_list_, {"CONNECTING"}) # {}
    /\ published.state = "READY"
====
